---- MODULE Spec2Model ----
(***************************************************************************)
(* Model of the fork-aware block-tree engine, Chain<B>, of                 *)
(* src/src/chain/src/chain.rs: append_block, rewind, write_block,          *)
(* write_orphan, process_orphans, attempt_switch, attempt_attach,          *)
(* attempt_attach_valid, make_valid_tips and recurse_inverse.              *)
(*                                                                         *)
(* A block hash is an integer; GENESIS is the hash of B::genesis().  The   *)
(* engine is a record (see Fresh) whose fields carry the names of the      *)
(* fields of struct Chain; every function of the source is an operator     *)
(* from engine records to engine records.  A panic (failed unwrap, failed  *)
(* assertion, unreachable!, unimplemented!) sets the field panic and       *)
(* stops the rest of the call.  The iteration order of a HashMap/HashSet   *)
(* is unspecified: every call draws an order ord over the hashes and all   *)
(* loops of the call over a map or a set visit the keys in that order.     *)
(***************************************************************************)
EXTENDS Integers, Sequences, FiniteSets, TLC

\* ------------------------------------------------------------ bounds
\* Number of distinct well-formed blocks that may be submitted.
NumBlocks == 4
\* Number of distinct well-formed blocks of the runs that only append.
NumForkBlocks == 5
\* Length of the chain of the runs that probe the window of heights.
WindowChain == 12
\* Number of blocks, and greatest claimed height, of the runs over blocks
\* that claim any height.
NumHeightBlocks == 3
MaxClaimedHeight == 4
\* Length of the chain of the runs that fill the orphan pool.
CapacityChain == 3
\* Number of blocks of the runs that promote disconnected sub-trees.
NumPromoteBlocks == 7
\* Number of blocks of the runs over detached sub-trees.
NumDetachedBlocks == 5
\* Number of blocks and of reading threads of the runs through ChainRef.
NumCacheBlocks == 3
NumReaders == 2
\* Length of the chain of the runs that follow the locks of ChainRef.
NumLockBlocks == 2

\* ------------------------------------------------- program constants
BLOCK_CACHE_SIZE == 20
MAX_ORPHANS == 100
MIN_HEIGHT == 10
MAX_HEIGHT == 10

GENESIS == 0
NONE == -1

Blocks == 1..NumBlocks
\* A malformed block: height 1 and parent_hash() = None.
NOPARENT == (IF NumForkBlocks > NumBlocks THEN NumForkBlocks ELSE NumBlocks) + 1

DisconnectedTip == "DisconnectedTip"
BelongsToDisconnected == "BelongsToDisconnected"
ValidChainTip == "ValidChainTip"
BelongsToValidChain == "BelongsToValidChain"

VARIABLES
  blocks,       \* the block values that exist: hash -> [parent_hash, height]
  chain,        \* the engine, a record with the fields of struct Chain
  result,       \* outcome of the last public call
  last_call,    \* the last public call: <<name, argument, its events, its scans>>
  all_ok,       \* every append_block call so far returned Ok
  accepted,     \* the blocks for which append_block returned Ok
  rewound,      \* rewind has been called from outside
  script,       \* progress of the scripted run append(seq); rewind(b); append(seq')
  cref          \* the ChainRef: its block cache and its readers

vars == <<blocks, chain, result, last_call, all_ok, accepted, rewound, script, cref>>

\* ------------------------------------------------------------ blocks
ParentHash(b) == blocks[b].parent_hash
Height(b) == blocks[b].height

\* Parent functions of the labelled trees of n blocks rooted at genesis.
Trees(n) == { p \in [1..n -> 0..(n - 1)] : \A b \in 1..n : p[b] < b }

\* The well-formed blocks that exist.
TreeBlocks == (DOMAIN blocks) \ {GENESIS, NOPARENT}

RECURSIVE TreeHeight(_, _, _)
TreeHeight(p, skew, b) ==
  IF b = GENESIS THEN 0
  ELSE TreeHeight(p, skew, p[b]) + 1 + (IF b = skew THEN 1 ELSE 0)

\* The block values of a tree; block skew (if not 0) claims a height one
\* above parent height + 1.
BlockValues(p, skew) ==
  [b \in {GENESIS} \cup (DOMAIN p) \cup {NOPARENT} |->
     IF b = GENESIS THEN [parent_hash |-> NONE, height |-> 0]
     ELSE IF b = NOPARENT THEN [parent_hash |-> NONE, height |-> 1]
     ELSE [parent_hash |-> p[b], height |-> TreeHeight(p, skew, b)]]

\* ------------------------------------------------------ map helpers
Put(f, k, v) == [x \in (DOMAIN f) \cup {k} |-> IF x = k THEN v ELSE f[x]]
Del(f, k) == [x \in (DOMAIN f) \ {k} |-> f[x]]
EmptyMap == [x \in {} |-> 0]

\* Iteration orders of the hash containers drawn by a call.
MaxHash == IF WindowChain + 1 > NOPARENT THEN WindowChain + 1 ELSE NOPARENT
Ascending == [i \in 1..MaxHash |-> i]
Descending == [i \in 1..MaxHash |-> MaxHash + 1 - i]
Orders == {Ascending, Descending}

\* The keys of S in the order ord.
Iter(S, ord) == SelectSeq(ord, LAMBDA x : x \in S)

Panic(s) == [s EXCEPT !.panic = TRUE]

\* ----------------------------------------------------- the store
\* PersistentDb (get / emplace / remove) as a byte dictionary: db is the
\* set of block hashes that have an entry, db_height the value stored
\* under CANONICAL_HEIGHT_KEY and db_tip the value under TIP_KEY.
DbGet(s, k) == k \in s.db
DbEmplace(s, k) == [s EXCEPT !.db = @ \cup {k}]
DbRemove(s, k) == [s EXCEPT !.db = @ \ {k}]

\* Chain::new over an empty store.
Fresh ==
  [ db |-> {},
    db_height |-> 0,
    db_tip |-> NONE,
    height |-> 0,
    canonical_tip |-> GENESIS,
    orphan_pool |-> {},
    max_orphan_height |-> NONE,
    heights_mapping |-> EmptyMap,
    validations_mapping |-> EmptyMap,
    disconnected_heads_mapping |-> EmptyMap,
    disconnected_heads_heights |-> EmptyMap,
    disconnected_tips_mapping |-> EmptyMap,
    valid_tips |-> {},
    events |-> <<>>,
    scans |-> <<>>,
    panic |-> FALSE ]

\* Chain::new over the store of s: the tip is read from TIP_KEY (genesis when
\* there is no entry) and the height from CANONICAL_HEIGHT_KEY; every
\* in-memory index starts empty.
Chain_new(s) ==
  [Fresh EXCEPT
     !.db = s.db,
     !.db_height = s.db_height,
     !.db_tip = s.db_tip,
     !.canonical_tip = IF s.db_tip = NONE THEN GENESIS ELSE s.db_tip,
     !.height = s.db_height,
     !.panic = (s.db_tip # NONE /\ ~DbGet(s, s.db_tip))]

write_canonical_height(s, h) == [s EXCEPT !.db_height = h]

update_max_orphan_height(s, new_height) ==
  IF s.max_orphan_height = NONE \/ new_height > s.max_orphan_height
  THEN [s EXCEPT !.max_orphan_height = new_height]
  ELSE s

\* entries.insert(hash, inverse_height) on the bucket of a height, creating
\* the bucket when it is missing.
HeightsInsert(hm, h, k, v) ==
  IF h \in DOMAIN hm THEN Put(hm, h, Put(hm[h], k, v))
  ELSE Put(hm, h, Put(EmptyMap, k, v))

\* ------------------------------------------------------------ rewind
\* A loop that gives every demoted ancestor the same inverse height.
RECURSIVE RewindLoopFlat(_, _, _, _)
RewindLoopFlat(s, current, inverse_height, block_hash) ==
  IF s.panic THEN s
  ELSE IF ParentHash(current) = NONE THEN Panic(s)
  ELSE LET parent_hash == ParentHash(current) IN
    IF parent_hash = block_hash THEN s
    ELSE IF ~DbGet(s, parent_hash) THEN Panic(s)
    ELSE
      LET s1 == DbRemove(s, parent_hash)
          s2 == [s1 EXCEPT
                   !.orphan_pool = @ \cup {parent_hash},
                   !.validations_mapping = Put(@, parent_hash, BelongsToValidChain),
                   !.heights_mapping =
                      HeightsInsert(@, Height(parent_hash), parent_hash, inverse_height)]
          s3 == update_max_orphan_height(s2, Height(parent_hash))
      IN RewindLoopFlat(s3, parent_hash, inverse_height, block_hash)

RECURSIVE RewindLoop(_, _, _, _)
RewindLoop(s, current, inverse_height, block_hash) ==
  IF s.panic THEN s
  ELSE IF ParentHash(current) = NONE THEN Panic(s)
  ELSE LET parent_hash == ParentHash(current) IN
    IF parent_hash = block_hash THEN s
    ELSE IF ~DbGet(s, parent_hash) THEN Panic(s)
    ELSE
      LET s1 == DbRemove(s, parent_hash)
          s2 == [s1 EXCEPT
                   !.orphan_pool = @ \cup {parent_hash},
                   !.validations_mapping = Put(@, parent_hash, BelongsToValidChain),
                   !.heights_mapping =
                      HeightsInsert(@, Height(parent_hash), parent_hash, inverse_height)]
          s3 == update_max_orphan_height(s2, Height(parent_hash))
      IN RewindLoop(s3, parent_hash, inverse_height + 1, block_hash)

\* A demotion of the tip that leaves its entry in the store.
DemoteTipKeepsStored(s) ==
  LET current == s.canonical_tip
      s2 == [s EXCEPT
               !.orphan_pool = @ \cup {current},
               !.validations_mapping = Put(@, current, ValidChainTip),
               !.valid_tips = @ \cup {current},
               !.heights_mapping = HeightsInsert(@, Height(current), current, 0)]
  IN update_max_orphan_height(s2, Height(current))

\* A demotion of the tip that leaves it out of the orphan pool.
DemoteTipNotPooled(s) ==
  LET current == s.canonical_tip
      s1 == DbRemove(s, current)
      s2 == [s1 EXCEPT
               !.validations_mapping = Put(@, current, ValidChainTip),
               !.valid_tips = @ \cup {current},
               !.heights_mapping = HeightsInsert(@, Height(current), current, 0)]
  IN update_max_orphan_height(s2, Height(current))

\* Remove the canonical tip from the chain, add it to the orphan pool and
\* mark it as a valid chain tip.
DemoteTip(s) ==
  LET current == s.canonical_tip
      s1 == DbRemove(s, current)
      s2 == [s1 EXCEPT
               !.orphan_pool = @ \cup {current},
               !.validations_mapping = Put(@, current, ValidChainTip),
               !.valid_tips = @ \cup {current},
               !.heights_mapping = HeightsInsert(@, Height(current), current, 0)]
  IN update_max_orphan_height(s2, Height(current))

\* Returns <<engine, result>>.
rewind(s, block_hash) ==
  IF block_hash = GENESIS THEN <<Panic(s), "panic">>
  ELSE IF ~DbGet(s, block_hash) THEN <<s, "NoSuchBlock">>
  ELSE
    LET s4 == RewindLoop(DemoteTip(s), s.canonical_tip, 1, block_hash)
    IN IF s4.panic THEN <<s4, "panic">>
       ELSE <<[write_canonical_height(s4, Height(block_hash)) EXCEPT
                 !.height = Height(block_hash),
                 !.canonical_tip = block_hash], "Ok">>

\* ------------------------------------------------------- write_block
\* while let Some(parent) = orphan_pool.get(current): mark it as belonging
\* to a valid chain.
RECURSIVE MarkParentsValid(_, _)
MarkParentsValid(s, current) ==
  IF current \notin s.orphan_pool THEN s
  ELSE IF current \notin DOMAIN s.validations_mapping THEN Panic(s)
  ELSE MarkParentsValid(
         [s EXCEPT !.validations_mapping = Put(@, current, BelongsToValidChain)],
         ParentHash(current))

\* for tip_hash in tips.iter() of write_block.
RECURSIVE WriteBlockTips(_, _, _)
WriteBlockTips(s, tips, block_hash) ==
  IF s.panic \/ tips = <<>> THEN s
  ELSE LET tip_hash == Head(tips) IN
    IF tip_hash = block_hash THEN WriteBlockTips(s, Tail(tips), block_hash)
    ELSE IF tip_hash \notin s.orphan_pool THEN Panic(s)
    ELSE IF tip_hash \notin DOMAIN s.validations_mapping THEN Panic(s)
    ELSE
      LET s1 == [s EXCEPT
                   !.valid_tips = @ \cup {tip_hash},
                   !.validations_mapping = Put(@, tip_hash, ValidChainTip)]
          s2 == MarkParentsValid(s1, ParentHash(tip_hash))
          s3 == [s2 EXCEPT !.disconnected_tips_mapping = Del(@, tip_hash)]
      IN WriteBlockTips(s3, Tail(tips), block_hash)

\* Traverse heights backwards until a bucket exists.
RECURSIVE NextMaxOrphanHeight(_, _)
NextMaxOrphanHeight(hm, current) ==
  IF current = 0 THEN NONE
  ELSE IF current \in DOMAIN hm THEN current
  ELSE NextMaxOrphanHeight(hm, current - 1)

\* The height written by write_block: the stored canonical height plus one.
WrittenHeight(s, block) == s.db_height + 1

\* A removal of the written block that leaves its heights_mapping entry.
RemoveWrittenKeepsEntry(s, block) ==
  [s EXCEPT
     !.orphan_pool = @ \ {block},
     !.valid_tips = @ \ {block}]

\* A removal of the written block that leaves it in the orphan pool.
RemoveWrittenKeepsOrphan(s, block) ==
  [s EXCEPT
     !.heights_mapping =
        IF Height(block) \in DOMAIN @
        THEN Put(@, Height(block), Del(@[Height(block)], block))
        ELSE @,
     !.valid_tips = @ \ {block}]

\* Remove the written block from the orphan pool, from the height mappings
\* and from the valid tips.
RemoveWritten(s, block) ==
  [s EXCEPT
     !.orphan_pool = @ \ {block},
     !.heights_mapping =
        IF Height(block) \in DOMAIN @
        THEN Put(@, Height(block), Del(@[Height(block)], block))
        ELSE @,
     !.valid_tips = @ \ {block}]

\* The callback that is called only for blocks written before the drain.
AfterWriteUnlessDrained(s, block) ==
  IF s.panic \/ \E i \in 1..Len(s.events) : s.events[i][1] = "process_orphans"
  THEN s
  ELSE [s EXCEPT !.events = Append(@, <<"after_write", block>>)]

\* if let Some(mut cb) = B::after_write() { cb(block) }: the callback of a
\* block type that has one; events records its calls, and the calls of
\* process_orphans, in the order they are made during a public call.
AfterWrite(s, block) ==
  IF s.panic THEN s
  ELSE [s EXCEPT !.events = Append(@, <<"after_write", block>>)]

write_block(s, block, ord) ==
  IF s.panic THEN s
  ELSE IF ParentHash(block) = NONE THEN Panic(s)
  ELSE IF ParentHash(block) # s.canonical_tip THEN Panic(s)
  ELSE
    LET s1 == DbEmplace(s, block)
        height == WrittenHeight(s1, block)
        s2 == [write_canonical_height(s1, height) EXCEPT
                 !.canonical_tip = block,
                 !.height = height]
        s3 == RemoveWritten(s2, block)
        s4 == IF s3.max_orphan_height # NONE /\ Height(block) = s3.max_orphan_height
              THEN [s3 EXCEPT !.max_orphan_height =
                      NextMaxOrphanHeight(s3.heights_mapping, Height(block) - 1)]
              ELSE s3
        tips == IF block \in DOMAIN s4.disconnected_heads_mapping
                THEN s4.disconnected_heads_mapping[block]
                ELSE {}
        s5 == [s4 EXCEPT
                 !.disconnected_heads_mapping = Del(@, block),
                 !.disconnected_heads_heights = Del(@, block),
                 !.disconnected_tips_mapping = Del(@, block)]
    IN AfterWrite(WriteBlockTips(s5, Iter(tips, ord), block), block)

\* ------------------------------------------------------ write_orphan
write_orphan(s, orphan, orphan_type, inverse_height) ==
  IF s.panic THEN s
  ELSE
    LET height == Height(orphan)
        s1 == IF orphan_type = ValidChainTip
              THEN [s EXCEPT !.valid_tips = @ \cup {orphan}]
              ELSE s
        s2 == [s1 EXCEPT
                 !.heights_mapping =
                    IF height \in DOMAIN @
                    THEN (IF orphan \in DOMAIN @[height] THEN @
                          ELSE Put(@, height, Put(@[height], orphan, inverse_height)))
                    ELSE Put(@, height, Put(EmptyMap, orphan, inverse_height)),
                 !.orphan_pool = @ \cup {orphan}]
        s3 == update_max_orphan_height(s2, height)
    IN [s3 EXCEPT !.validations_mapping = Put(@, orphan, orphan_type)]

\* --------------------------------------------------- recurse_inverse
RECURSIVE RecurseInverseLoop(_, _, _, _)
RecurseInverseLoop(s, current, cur_inverse, make_valid) ==
  IF s.panic THEN s
  ELSE IF ParentHash(current) = NONE THEN Panic(s)
  ELSE LET parent == ParentHash(current)
           par_height == Height(parent) IN
    IF parent \notin s.orphan_pool THEN s
    ELSE IF par_height \notin DOMAIN s.heights_mapping THEN Panic(s)
    ELSE IF parent \notin DOMAIN s.heights_mapping[par_height] THEN Panic(s)
    ELSE
      LET entry == s.heights_mapping[par_height][parent]
          s1 == IF entry < cur_inverse + 1
                THEN [s EXCEPT !.heights_mapping =
                        Put(@, par_height, Put(@[par_height], parent, cur_inverse + 1))]
                ELSE s
          s2 == IF make_valid
                THEN [s1 EXCEPT !.validations_mapping =
                        Put(@, parent, BelongsToValidChain)]
                ELSE s1
      IN RecurseInverseLoop(s2, parent, cur_inverse + 1, make_valid)

recurse_inverse(s, orphan, start_height, make_valid) ==
  IF s.panic THEN s
  ELSE IF make_valid /\ start_height # 0 THEN Panic(s)
  ELSE
    LET s1 == IF make_valid
              THEN [s EXCEPT !.validations_mapping = Put(@, orphan, ValidChainTip)]
              ELSE s
    IN RecurseInverseLoop(s1, orphan, start_height, make_valid)

\* --------------------------------------------------- make_valid_tips
\* Recurse the parents of a tip until one already BelongsToValidChain or
\* one that is not in the orphan pool.
RECURSIVE MakeValidParents(_, _)
MakeValidParents(s, current) ==
  IF current \notin s.orphan_pool THEN s
  ELSE IF current \notin DOMAIN s.validations_mapping THEN Panic(s)
  ELSE IF s.validations_mapping[current] = BelongsToValidChain THEN s
  ELSE MakeValidParents(
         [s EXCEPT !.validations_mapping = Put(@, current, BelongsToValidChain)],
         ParentHash(current))

RECURSIVE MakeValidTipsLoop(_, _)
MakeValidTipsLoop(s, tips) ==
  IF s.panic \/ tips = <<>> THEN s
  ELSE LET tip_hash == Head(tips) IN
    IF tip_hash \notin s.orphan_pool THEN Panic(s)
    ELSE IF tip_hash \notin DOMAIN s.validations_mapping THEN Panic(s)
    ELSE
      LET s1 == [s EXCEPT
                   !.validations_mapping = Put(@, tip_hash, ValidChainTip),
                   !.disconnected_tips_mapping = Del(@, tip_hash),
                   !.valid_tips = @ \cup {tip_hash}]
      IN MakeValidTipsLoop(MakeValidParents(s1, ParentHash(tip_hash)), Tail(tips))

\* make_valid_tips without the removal of the head from
\* disconnected_heads_heights.
make_valid_tips_keeps_heights(s, head, ord) ==
  IF s.panic THEN s
  ELSE IF head \notin DOMAIN s.disconnected_heads_mapping THEN Panic(s)
  ELSE
    LET tips == s.disconnected_heads_mapping[head]
        s1 == [s EXCEPT !.disconnected_heads_mapping = Del(@, head)]
    IN MakeValidTipsLoop(s1, Iter(tips, ord))

make_valid_tips(s, head, ord) ==
  IF s.panic THEN s
  ELSE IF head \notin DOMAIN s.disconnected_heads_mapping THEN Panic(s)
  ELSE
    LET tips == s.disconnected_heads_mapping[head]
        s1 == [s EXCEPT
                 !.disconnected_heads_mapping = Del(@, head),
                 !.disconnected_heads_heights = Del(@, head)]
    IN MakeValidTipsLoop(s1, Iter(tips, ord))

\* ---------------------------------------------------- attempt_attach
\* The loop over disconnected_heads_mapping that collects the heads whose
\* parent is tip_hash: <<panicked, to_attach>>.
RECURSIVE FindHeadsToAttach(_, _, _, _, _)
FindHeadsToAttach(s, heads, our_head_hash, tip_hash, acc) ==
  IF heads = <<>> THEN <<FALSE, acc>>
  ELSE LET head_hash == Head(heads) IN
    IF head_hash = our_head_hash \/ head_hash = tip_hash
    THEN FindHeadsToAttach(s, Tail(heads), our_head_hash, tip_hash, acc)
    ELSE IF head_hash \notin s.orphan_pool THEN <<TRUE, acc>>
    ELSE IF ParentHash(head_hash) = tip_hash
    THEN FindHeadsToAttach(s, Tail(heads), our_head_hash, tip_hash,
                           Append(acc, head_hash))
    ELSE FindHeadsToAttach(s, Tail(heads), our_head_hash, tip_hash, acc)

\* for tip_hash in tips.iter(): merge the tips of an attached head.
RECURSIVE MergeTips(_, _, _)
MergeTips(s, tips, cur_head) ==
  IF s.panic \/ tips = <<>> THEN s
  ELSE LET tip_hash == Head(tips) IN
    IF tip_hash \notin s.orphan_pool THEN Panic(s)
    ELSE IF cur_head \notin DOMAIN s.disconnected_heads_heights THEN Panic(s)
    ELSE
      LET largest_height == s.disconnected_heads_heights[cur_head][1]
          s1 == [s EXCEPT
                   !.disconnected_tips_mapping = Put(@, tip_hash, cur_head),
                   !.disconnected_heads_heights =
                      IF Height(tip_hash) > largest_height
                      THEN Put(@, cur_head, <<Height(tip_hash), tip_hash>>)
                      ELSE @,
                   !.disconnected_heads_mapping =
                      Put(@, cur_head, @[cur_head] \cup {tip_hash})]
      IN MergeTips(s1, Tail(tips), cur_head)

RECURSIVE RecurseTips(_, _)
RecurseTips(s, tips) ==
  IF s.panic \/ tips = <<>> THEN s
  ELSE RecurseTips(recurse_inverse(s, Head(tips), 0, FALSE), Tail(tips))

\* for head in to_attach.iter().
RECURSIVE AttachHeads(_, _, _, _)
AttachHeads(s, to_attach, cur_head, ord) ==
  IF s.panic \/ to_attach = <<>> THEN s
  ELSE LET head == Head(to_attach) IN
    IF head \notin DOMAIN s.disconnected_heads_mapping THEN Panic(s)
    ELSE IF head \notin DOMAIN s.disconnected_heads_heights THEN Panic(s)
    ELSE
      LET tips == s.disconnected_heads_mapping[head]
          s1 == [s EXCEPT
                   !.disconnected_heads_mapping = Del(@, head),
                   !.disconnected_heads_heights = Del(@, head)]
          s2 == [s1 EXCEPT
                   !.disconnected_heads_mapping =
                      IF cur_head \in DOMAIN @
                      THEN Put(@, cur_head, @[cur_head] \ {cur_head})
                      ELSE Put(@, cur_head, {}),
                   !.disconnected_tips_mapping = Del(@, cur_head)]
          s3 == MergeTips(s2, Iter(tips, ord), cur_head)
          s4 == RecurseTips(s3, Iter(tips, ord))
      IN AttachHeads(s4, Tail(to_attach), cur_head, ord)

\* Returns [s, status].
attempt_attach(s, tip_hash, initial_status, ord) ==
  IF s.panic THEN [s |-> s, status |-> initial_status]
  ELSE IF tip_hash \notin DOMAIN s.disconnected_tips_mapping
  THEN [s |-> Panic(s), status |-> initial_status]
  ELSE
    LET our_head_hash == s.disconnected_tips_mapping[tip_hash]
        found == FindHeadsToAttach(s, Iter(DOMAIN s.disconnected_heads_mapping, ord),
                                   our_head_hash, tip_hash, <<>>)
        to_attach == found[2]
        status == IF to_attach # <<>> THEN BelongsToDisconnected ELSE initial_status
    IN IF found[1] THEN [s |-> Panic(s), status |-> status]
       ELSE [s |-> AttachHeads(s, to_attach, our_head_hash, ord), status |-> status]

\* ---------------------------------------------- attempt_attach_valid
\* The filter closure over disconnected_heads_heights fails when a head has
\* no tip set, when its recorded largest tip is not in its tip set or when
\* the head is not in the orphan pool.
HeadEntryBroken(s, h) ==
  \/ h \notin DOMAIN s.disconnected_heads_mapping
  \/ s.disconnected_heads_heights[h][2] \notin s.disconnected_heads_mapping[h]
  \/ h \notin s.orphan_pool

\* Find the head that follows the tip and has the largest potential height:
\* the first in iteration order among those of greatest largest_height.
RECURSIVE LargestHead(_, _, _)
LargestHead(s, heads, current) ==
  IF heads = <<>> THEN current
  ELSE LET head_hash == Head(heads) IN
    IF current = NONE
       \/ s.disconnected_heads_heights[head_hash][1]
            > s.disconnected_heads_heights[current][1]
    THEN LargestHead(s, Tail(heads), head_hash)
    ELSE LargestHead(s, Tail(heads), current)

\* Returns [s, tip, inverse_height, status].
attempt_attach_valid(s, tip, inverse_height, status, ord) ==
  LET same == [s |-> s, tip |-> tip, inverse_height |-> inverse_height,
               status |-> status]
  IN
  IF s.panic THEN same
  ELSE IF tip \notin s.valid_tips THEN [same EXCEPT !.s = Panic(s)]
  ELSE IF \E h \in DOMAIN s.disconnected_heads_heights : HeadEntryBroken(s, h)
  THEN [same EXCEPT !.s = Panic(s)]
  ELSE
    LET matching == { h \in DOMAIN s.disconnected_heads_heights :
                        ParentHash(h) = tip }
        current == LargestHead(s, Iter(matching, ord), NONE)
    IN
    IF current = NONE
    THEN [same EXCEPT !.s = recurse_inverse(s, tip, 0, TRUE)]
    ELSE
      LET largest_height == s.disconnected_heads_heights[current][1]
          largest_tip == s.disconnected_heads_heights[current][2]
      IN
      IF largest_tip \notin s.orphan_pool \/ largest_height < Height(tip)
      THEN [same EXCEPT !.s = Panic(s)]
      ELSE
        [ s |-> recurse_inverse(make_valid_tips(s, current, ord), largest_tip, 0, TRUE),
          tip |-> largest_tip,
          inverse_height |-> largest_height - Height(tip),
          status |-> BelongsToValidChain ]

\* --------------------------------------------------- process_orphans
\* for (o, i_h) in orphans.iter() of the branch for several orphans at one
\* height: [s, prev_valid_tips, buf], buf a sequence of <<hash, i_h>>.
RECURSIVE ScanOrphans(_, _, _, _, _)
ScanOrphans(s, keys, orphans, prev_valid_tips, buf) ==
  IF s.panic \/ keys = <<>>
  THEN [s |-> s, prev_valid_tips |-> prev_valid_tips, buf |-> buf]
  ELSE LET o == Head(keys) IN
    IF o \notin s.orphan_pool
    THEN [s |-> Panic(s), prev_valid_tips |-> prev_valid_tips, buf |-> buf]
    ELSE LET orphan_parent == ParentHash(o) IN
      IF orphan_parent = s.canonical_tip
      THEN ScanOrphans(s, Tail(keys), orphans, prev_valid_tips,
                       Append(buf, <<o, orphans[o]>>))
      ELSE IF orphan_parent \in prev_valid_tips
      THEN
        IF orphan_parent \notin DOMAIN s.validations_mapping
           \/ o \notin DOMAIN s.validations_mapping
        THEN [s |-> Panic(s), prev_valid_tips |-> prev_valid_tips, buf |-> buf]
        ELSE
          LET s1 == [s EXCEPT
                       !.validations_mapping =
                          Put(Put(@, orphan_parent, BelongsToValidChain),
                              o, ValidChainTip),
                       !.valid_tips = (@ \ {orphan_parent}) \cup {o}]
          IN ScanOrphans(s1, Tail(keys), orphans,
                         (prev_valid_tips \ {orphan_parent}) \cup {o}, buf)
      ELSE ScanOrphans(s, Tail(keys), orphans, prev_valid_tips, buf)

\* The index of an entry of least inverse height (a sort in descending
\* order before the pop).
PoppedIndexLeast(buf) ==
  CHOOSE i \in 1..Len(buf) :
    /\ \A j \in 1..Len(buf) : buf[j][2] >= buf[i][2]
    /\ \A j \in 1..Len(buf) : buf[j][2] = buf[i][2] => j <= i

\* buf.sort_unstable_by(inverse height) then buf.pop(): the index in buf of
\* the popped entry.  A slice this short is sorted by insertion, which keeps
\* the iteration order among equal inverse heights: the popped entry is the
\* last one in iteration order among those of greatest inverse height.
PoppedIndex(buf) ==
  CHOOSE i \in 1..Len(buf) :
    /\ \A j \in 1..Len(buf) : buf[j][2] <= buf[i][2]
    /\ \A j \in 1..Len(buf) : buf[j][2] = buf[i][2] => j <= i

\* Place remaining tips in the valid tips set.
RECURSIVE MarkRemaining(_, _)
MarkRemaining(s, rest) ==
  IF s.panic \/ rest = {} THEN s
  ELSE LET o == CHOOSE x \in rest : TRUE IN
    IF o \notin DOMAIN s.validations_mapping THEN Panic(s)
    ELSE MarkRemaining(
           [s EXCEPT !.validations_mapping = Put(@, o, ValidChainTip),
                     !.valid_tips = @ \cup {o}],
           rest \ {o})

\* if h > max_orphan_height { break; }
PastOrphansLate(h, max_orphan_height) == h > max_orphan_height + 1

PastOrphans(h, max_orphan_height) == h > max_orphan_height

\* One more iteration of the loop, at height h.
Scan(s, h, done) == [s EXCEPT !.scans = Append(@, <<"scan", h, done>>)]

RECURSIVE ProcessOrphansLoop(_, _, _, _, _, _)
ProcessOrphansLoop(s, h, done, prev_valid_tips, max_orphan_height, ord) ==
  IF s.panic \/ PastOrphans(h, max_orphan_height) THEN s
  ELSE IF h \notin DOMAIN s.heights_mapping
  THEN ProcessOrphansLoop(Scan(s, h, done), h + 1, done, prev_valid_tips,
                          max_orphan_height, ord)
  ELSE
    LET orphans == s.heights_mapping[h]
        len == Cardinality(DOMAIN orphans)
    IN
    IF len = 1 THEN
      LET orphan == CHOOSE x \in DOMAIN orphans : TRUE IN
      IF orphan \notin s.orphan_pool THEN Panic(s)
      ELSE IF ParentHash(orphan) = s.canonical_tip /\ ~done
      THEN ProcessOrphansLoop(write_block(Scan(s, h, done), orphan, ord), h + 1, done,
                              prev_valid_tips, max_orphan_height, ord)
      ELSE Scan(s, h, done)
    ELSE IF len = 0 THEN
      IF prev_valid_tips = {} \/ done THEN Scan(s, h, done)
      ELSE ProcessOrphansLoop(Scan(s, h, done), h + 1, TRUE, prev_valid_tips,
                              max_orphan_height, ord)
    ELSE
      LET scan == ScanOrphans(Scan(s, h, done), Iter(DOMAIN orphans, ord), orphans,
                              prev_valid_tips, <<>>)
          buf == scan.buf
      IN
      IF scan.s.panic THEN scan.s
      ELSE IF buf = <<>> THEN
        IF scan.prev_valid_tips = {} \/ done THEN scan.s
        ELSE ProcessOrphansLoop(scan.s, h, TRUE, scan.prev_valid_tips,
                                max_orphan_height, ord)
      ELSE
        LET popped == PoppedIndex(buf)
            s1 == IF done THEN scan.s ELSE write_block(scan.s, buf[popped][1], ord)
            rest == IF done THEN { buf[i][1] : i \in 1..Len(buf) }
                    ELSE { buf[i][1] : i \in (1..Len(buf)) \ {popped} }
            s2 == MarkRemaining(s1, rest)
        IN ProcessOrphansLoop(s2, h + 1, done, scan.prev_valid_tips \cup rest,
                              max_orphan_height, ord)

\* process_orphans that starts one height above start_height.
process_orphans_skips_start(s, start_height, ord) ==
  IF s.panic \/ s.max_orphan_height = NONE THEN s
  ELSE ProcessOrphansLoop(s, start_height + 1, FALSE, {}, s.max_orphan_height, ord)

process_orphans(s, start_height, ord) ==
  IF s.panic THEN s
  ELSE
    LET s1 == [s EXCEPT !.events = Append(@, <<"process_orphans", start_height>>),
                        !.scans = Append(@, <<"start", start_height, s.max_orphan_height>>)]
    IN IF s1.max_orphan_height = NONE THEN s1
       ELSE ProcessOrphansLoop(s1, start_height, FALSE, {}, s1.max_orphan_height, ord)

\* ---------------------------------------------------- attempt_switch
\* Recurse parents until a canonical block is found:
\* <<panicked, horizon, to_write>>.
\* A walk that queues the ancestors behind the candidate (push_back).
RECURSIVE FindHorizonPushBack(_, _, _)
FindHorizonPushBack(s, current, to_write) ==
  IF current # NONE /\ DbGet(s, current) THEN <<FALSE, current, to_write>>
  ELSE IF current = NONE \/ current \notin s.orphan_pool
  THEN <<TRUE, current, to_write>>
  ELSE FindHorizonPushBack(s, ParentHash(current), to_write \o <<current>>)

RECURSIVE FindHorizon(_, _, _)
FindHorizon(s, current, to_write) ==
  IF current # NONE /\ DbGet(s, current) THEN <<FALSE, current, to_write>>
  ELSE IF current = NONE \/ current \notin s.orphan_pool
  THEN <<TRUE, current, to_write>>
  ELSE FindHorizon(s, ParentHash(current), <<current>> \o to_write)

RECURSIVE WriteBlocks(_, _, _, _)
WriteBlocks(s, to_write, horizon, ord) ==
  IF s.panic \/ to_write = <<>> THEN s
  ELSE IF Head(to_write) = horizon THEN WriteBlocks(s, Tail(to_write), horizon, ord)
  ELSE WriteBlocks(write_block(s, Head(to_write), ord), Tail(to_write), horizon, ord)

\* A switch that is also taken when the candidate is as high as the chain.
SwitchOnTie(s, candidate_tip) == Height(candidate_tip) >= s.height

\* The switch is taken when the candidate is strictly higher.
SwitchWanted(s, candidate_tip) == Height(candidate_tip) > s.height

\* The horizon is handed to rewind while the canonical tip is tip.
SwitchAt(s, horizon) ==
  [s EXCEPT !.events = Append(@, <<"switch", horizon, s.canonical_tip>>)]

attempt_switch(s, candidate_tip, ord) ==
  IF s.panic THEN s
  ELSE IF candidate_tip \notin s.valid_tips THEN Panic(s)
  ELSE IF ~SwitchWanted(s, candidate_tip) THEN s
  ELSE
    LET found == FindHorizon(s, ParentHash(candidate_tip), <<candidate_tip>>)
    IN
    IF found[1] THEN Panic(s)
    ELSE
      LET rw == rewind(SwitchAt(s, found[2]), found[2])
      IN IF rw[2] # "Ok" THEN Panic(rw[1])
         ELSE WriteBlocks(rw[1], found[3], found[2], ord)

\* ------------------------------------------------------ append_block
\* An existence check that only looks at the orphan pool.
ExistsInPoolOnly(s, block) == block \in s.orphan_pool

\* Check for existence: the hash is in the orphan pool or in the store.
BlockExists(s, block) == block \in s.orphan_pool \/ DbGet(s, block)

\* A capacity check that lets the pool grow one block past MAX_ORPHANS.
PoolFullOffByOne(s) == Cardinality(s.orphan_pool) > MAX_ORPHANS

\* The orphan pool is at capacity.
PoolFull(s) == Cardinality(s.orphan_pool) >= MAX_ORPHANS

\* A lower end that gives up the floor of 1 at height MIN_HEIGHT.
MinHeightNoFloor(s) == IF s.height >= MIN_HEIGHT THEN s.height - MIN_HEIGHT ELSE 1

\* Lower end of the accepted heights.
MinHeight(s) == IF s.height > MIN_HEIGHT THEN s.height - MIN_HEIGHT ELSE 1

\* Recurse parents until we find the head block (parent BelongsToDisconnected).
RECURSIVE FindHead(_, _)
FindHead(s, current) ==
  IF current \in DOMAIN s.disconnected_heads_mapping THEN current
  ELSE IF current # NONE /\ current \in s.orphan_pool
  THEN FindHead(s, ParentHash(current))
  ELSE NONE

\* Parent is the canonical tip.
AppendToTip(s, block, ord) ==
  process_orphans(write_block(s, block, ord), Height(block) + 1, ord)

\* The outcome of a call that went through: <<engine, result>>.
Returned(s) == <<s, IF s.panic THEN "panic" ELSE "Ok">>

\* A fork arm that writes the orphan before it checks the height.
AppendForkWritesFirst(s, block, ord) ==
  LET s1 == write_orphan(s, block, ValidChainTip, 0) IN
  IF Height(block) # Height(ParentHash(block)) + 1 THEN <<s1, "BadHeight">>
  ELSE
    LET a == attempt_attach_valid(s1, block, 0, ValidChainTip, ord)
    IN IF a.status = ValidChainTip THEN Returned(a.s)
       ELSE Returned(attempt_switch(a.s, a.tip, ord))

\* Parent is a persisted block that is not the canonical tip.
AppendFork(s, block, ord) ==
  IF Height(block) # Height(ParentHash(block)) + 1 THEN <<s, "BadHeight">>
  ELSE
    LET s1 == write_orphan(s, block, ValidChainTip, 0)
        a == attempt_attach_valid(s1, block, 0, ValidChainTip, ord)
    IN IF a.status = ValidChainTip THEN Returned(a.s)
       ELSE Returned(attempt_switch(a.s, a.tip, ord))

\* DropPushedTip that leaves the pushed block in the tip set of the head.
DropPushedTipKeepsTip(s, head, block_hash, status) ==
  IF s.panic THEN s
  ELSE IF head \notin DOMAIN s.disconnected_heads_mapping THEN Panic(s)
  ELSE [s EXCEPT
          !.validations_mapping = Put(@, block_hash, status),
          !.disconnected_tips_mapping = Del(@, block_hash)]

\* Make sure head tips don't contain the pushed block's hash.
DropPushedTip(s, head, block_hash, status) ==
  IF s.panic THEN s
  ELSE IF head \notin DOMAIN s.disconnected_heads_mapping THEN Panic(s)
  ELSE [s EXCEPT
          !.validations_mapping = Put(@, block_hash, status),
          !.disconnected_heads_mapping = Put(@, head, @[head] \ {block_hash}),
          !.disconnected_tips_mapping = Del(@, block_hash)]

\* An arm that leaves the parent in disconnected_tips_mapping.
AppendToDisconnectedTipKeepsParent(s, block, ord) ==
  LET parent_hash == ParentHash(block) IN
  IF parent_hash \notin DOMAIN s.disconnected_tips_mapping THEN Panic(s)
  ELSE LET head == s.disconnected_tips_mapping[parent_hash] IN
    IF head \notin DOMAIN s.disconnected_heads_mapping
       \/ head \notin DOMAIN s.disconnected_heads_heights
    THEN Panic(s)
    ELSE
      LET largest_height == s.disconnected_heads_heights[head][1]
          s1 == [s EXCEPT
                   !.validations_mapping = Put(@, parent_hash, BelongsToDisconnected),
                   !.disconnected_heads_mapping =
                      Put(@, head, (@[head] \ {parent_hash}) \cup {block}),
                   !.disconnected_heads_heights =
                      IF Height(block) > largest_height
                      THEN Put(@, head, <<Height(block), block>>)
                      ELSE @]
          s2 == write_orphan(s1, block, DisconnectedTip, 0)
          s3 == [s2 EXCEPT !.disconnected_tips_mapping = Put(@, block, head)]
          a == attempt_attach(s3, block, DisconnectedTip, ord)
      IN IF a.status = DisconnectedTip
         THEN recurse_inverse(a.s, block, 0, FALSE)
         ELSE DropPushedTip(a.s, head, block, a.status)

\* Parent is an orphan with status DisconnectedTip.
AppendToDisconnectedTip(s, block, ord) ==
  LET parent_hash == ParentHash(block) IN
  IF parent_hash \notin DOMAIN s.disconnected_tips_mapping THEN Panic(s)
  ELSE LET head == s.disconnected_tips_mapping[parent_hash] IN
    IF head \notin DOMAIN s.disconnected_heads_mapping
       \/ head \notin DOMAIN s.disconnected_heads_heights
    THEN Panic(s)
    ELSE
      LET largest_height == s.disconnected_heads_heights[head][1]
          s1 == [s EXCEPT
                   !.validations_mapping = Put(@, parent_hash, BelongsToDisconnected),
                   !.disconnected_heads_mapping =
                      Put(@, head, (@[head] \ {parent_hash}) \cup {block}),
                   !.disconnected_tips_mapping = Del(@, parent_hash),
                   !.disconnected_heads_heights =
                      IF Height(block) > largest_height
                      THEN Put(@, head, <<Height(block), block>>)
                      ELSE @]
          s2 == write_orphan(s1, block, DisconnectedTip, 0)
          s3 == [s2 EXCEPT !.disconnected_tips_mapping = Put(@, block, head)]
          a == attempt_attach(s3, block, DisconnectedTip, ord)
      IN IF a.status = DisconnectedTip
         THEN recurse_inverse(a.s, block, 0, FALSE)
         ELSE DropPushedTip(a.s, head, block, a.status)

\* An arm for a ValidChainTip parent that leaves the parent in valid_tips.
AppendToValidTipKeepsParent(s, block, ord) ==
  LET parent_hash == ParentHash(block)
      s1 == [s EXCEPT !.validations_mapping =
                Put(@, parent_hash, BelongsToValidChain)]
      s2 == write_orphan(s1, block, ValidChainTip, 0)
      a == attempt_attach_valid(s2, block, 0, ValidChainTip, ord)
      s3 == recurse_inverse(a.s, block, a.inverse_height, a.inverse_height = 0)
      s4 == IF s3.panic THEN s3
            ELSE [s3 EXCEPT !.valid_tips = @ \cup {a.tip}]
  IN attempt_switch(s4, a.tip, ord)

\* Parent is an orphan with status ValidChainTip.
AppendToValidTip(s, block, ord) ==
  LET parent_hash == ParentHash(block)
      s1 == [s EXCEPT !.validations_mapping =
                Put(@, parent_hash, BelongsToValidChain)]
      s2 == write_orphan(s1, block, ValidChainTip, 0)
      a == attempt_attach_valid(s2, block, 0, ValidChainTip, ord)
      s3 == recurse_inverse(a.s, block, a.inverse_height, a.inverse_height = 0)
      s4 == IF s3.panic THEN s3
            ELSE [s3 EXCEPT !.valid_tips = (@ \ {parent_hash}) \cup {a.tip}]
  IN attempt_switch(s4, a.tip, ord)

\* An arm for a BelongsToDisconnected parent that maps the block to its
\* head without adding it to the tip set of the head.
AppendToDisconnectedNoTip(s, block, ord) ==
  LET parent_hash == ParentHash(block)
      s1 == write_orphan(s, block, DisconnectedTip, 0)
      head == FindHead(s1, parent_hash)
  IN
  IF head = NONE THEN Panic(s1)
  ELSE
    LET s2 == [s1 EXCEPT !.disconnected_tips_mapping = Put(@, block, head)]
        a == attempt_attach(s2, block, DisconnectedTip, ord)
    IN IF a.status = DisconnectedTip
       THEN recurse_inverse(
              IF a.s.panic THEN a.s
              ELSE [a.s EXCEPT !.disconnected_tips_mapping = Put(@, block, head)],
              block, 0, FALSE)
       ELSE DropPushedTip(a.s, head, block, a.status)

\* Parent is an orphan with status BelongsToDisconnected.
AppendToDisconnected(s, block, ord) ==
  LET parent_hash == ParentHash(block)
      s1 == write_orphan(s, block, DisconnectedTip, 0)
      head == FindHead(s1, parent_hash)
  IN
  IF head = NONE THEN Panic(s1)
  ELSE
    LET s2 == [s1 EXCEPT
                 !.disconnected_heads_mapping = Put(@, head, @[head] \cup {block}),
                 !.disconnected_tips_mapping = Put(@, block, head)]
        a == attempt_attach(s2, block, DisconnectedTip, ord)
    IN IF a.status = DisconnectedTip
       THEN recurse_inverse(
              IF a.s.panic THEN a.s
              ELSE [a.s EXCEPT !.disconnected_tips_mapping = Put(@, block, head)],
              block, 0, FALSE)
       ELSE DropPushedTip(a.s, head, block, a.status)

\* Parent is an orphan with status BelongsToValidChain.
AppendToValidChain(s, block, ord) ==
  LET s1 == [s EXCEPT !.valid_tips = @ \cup {block}]
      a == attempt_attach_valid(s1, block, 0, ValidChainTip, ord)
      s2 == write_orphan(a.s, block, a.status, a.inverse_height)
      s3 == recurse_inverse(s2, a.tip, a.inverse_height, a.inverse_height = 0)
  IN attempt_switch(s3, a.tip, ord)

\* Parent is neither persisted nor in the orphan pool.
AppendDisconnectedHead(s, block, ord) ==
  LET s1 == [s EXCEPT
               !.disconnected_heads_mapping = Put(@, block, {block}),
               !.disconnected_tips_mapping = Put(@, block, block),
               !.disconnected_heads_heights = Put(@, block, <<Height(block), block>>),
               !.heights_mapping = HeightsInsert(@, Height(block), block, 0),
               !.orphan_pool = @ \cup {block}]
      a == attempt_attach(s1, block, DisconnectedTip, ord)
  IN
  IF a.s.panic THEN a.s
  \* for tip_hash in valid_tips.iter(): orphan_pool.get(tip_hash).unwrap();
  \* no tip in the pool has the hash parent_hash, which is not in the pool,
  \* so the loop visits every valid tip and never finds a match.
  ELSE IF ~(a.s.valid_tips \subseteq a.s.orphan_pool) THEN Panic(a.s)
  ELSE write_orphan(a.s, block, a.status, 0)

\* Returns <<engine, result>>.
append_block(s, block, ord) ==
  IF Height(block) > s.height + MAX_HEIGHT \/ Height(block) < MinHeight(s)
  THEN <<s, "BadHeight">>
  ELSE IF BlockExists(s, block) THEN <<s, "AlreadyInChain">>
  ELSE IF ParentHash(block) = NONE THEN <<s, "NoParentHash">>
  ELSE
    LET parent_hash == ParentHash(block)
        done(s1) == Returned(s1)
    IN
    IF parent_hash = s.canonical_tip THEN
      IF Height(block) # s.height + 1 THEN <<s, "BadHeight">>
      ELSE done(AppendToTip(s, block, ord))
    ELSE IF PoolFull(s) THEN <<s, "TooManyOrphans">>
    ELSE IF DbGet(s, parent_hash) THEN AppendFork(s, block, ord)
    ELSE IF parent_hash \in s.orphan_pool THEN
      IF Height(block) # Height(parent_hash) + 1 THEN <<s, "BadHeight">>
      ELSE IF parent_hash \notin DOMAIN s.validations_mapping THEN done(Panic(s))
      ELSE
        LET parent_status == s.validations_mapping[parent_hash] IN
        IF parent_status = DisconnectedTip
        THEN done(AppendToDisconnectedTip(s, block, ord))
        ELSE IF parent_status = ValidChainTip
        THEN done(AppendToValidTip(s, block, ord))
        ELSE IF parent_status = BelongsToDisconnected
        THEN done(AppendToDisconnected(s, block, ord))
        ELSE done(AppendToValidChain(s, block, ord))
    ELSE done(AppendDisconnectedHead(s, block, ord))

Chain_query(s, hash) == IF DbGet(s, hash) THEN hash ELSE NONE

\* The hashes the engine holds: persisted blocks and orphans.
Known(s) == s.db \cup s.orphan_pool

\* ----------------------------------------------------------- ChainRef
\* The block cache is an LruCache of capacity BLOCK_CACHE_SIZE: a sequence
\* of <<key, value>> entries, the most recently used first.
Readers == 1..NumReaders

\* The positions of key k in the cache.
LruIndex(c, k) == { i \in 1..Len(c) : c[i][1] = k }

\* A lookup that returns the most recently used value whatever the key.
LruGetFront(c, k) ==
  IF c = <<>> THEN [cache |-> c, value |-> NONE]
  ELSE [cache |-> c, value |-> c[1][2]]

\* LruCache::get: the value under key k (NONE on a miss); a hit makes the
\* entry the most recently used.
LruGet(c, k) ==
  IF LruIndex(c, k) = {} THEN [cache |-> c, value |-> NONE]
  ELSE LET i == CHOOSE j \in LruIndex(c, k) : TRUE
       IN [cache |-> <<c[i]>> \o SelectSeq(c, LAMBDA e : e[1] # k),
           value |-> c[i][2]]

\* LruCache::put: the entry becomes the most recently used; at capacity the
\* least recently used entry is dropped.
LruPut(c, k, v) ==
  LET rest == SelectSeq(c, LAMBDA e : e[1] # k)
      kept == IF Len(rest) >= BLOCK_CACHE_SIZE
              THEN SubSeq(rest, 1, BLOCK_CACHE_SIZE - 1)
              ELSE rest
  IN <<<<k, v>>>> \o kept

Idle == [pc |-> "idle", hash |-> NONE, found |-> NONE]

\* ChainRef::new, with the history of its queries: returned holds <<h, v>>
\* when the engine's query(h) has returned v to ChainRef::query, persisted
\* the hashes that the store has held when a call of the engine returned,
\* last the last result of ChainRef::query, <<hash, value>>, and served the
\* hashes for which ChainRef::query has returned a block.  mutex is the
\* reader that holds the Mutex of block_cache (0: free), rlocks the readers
\* that hold the RwLock of the chain for reading, wlock whether a writer
\* holds it for writing.
ChainRef_new ==
  [ block_cache |-> <<>>,
    readers |-> [r \in Readers |-> Idle],
    returned |-> {},
    persisted |-> {},
    last |-> <<>>,
    served |-> {},
    mutex |-> 0,
    rlocks |-> {},
    wlock |-> FALSE ]

\* ------------------------------------------------------------ actions
NoScript == [pc |-> "off", seq |-> <<>>, i |-> 0, tip |-> NONE, height |-> 0]

Start(p, skew) ==
  /\ blocks = BlockValues(p, skew)
  /\ chain = Fresh
  /\ result = "new"
  /\ last_call = <<"new", NONE, <<>>, <<>>>>
  /\ all_ok = TRUE
  /\ accepted = {}
  /\ rewound = FALSE
  /\ cref = ChainRef_new

\* Blocks of a tree rooted at genesis, height = parent height + 1.
Init == (\E p \in Trees(NumBlocks) : Start(p, 0)) /\ script = NoScript

\* The same, with one block that claims a height above parent height + 1.
InitAny ==
  (\E p \in Trees(NumBlocks), skew \in Blocks : Start(p, skew)) /\ script = NoScript

\* The engine between two public calls: the events of the last call are
\* kept in last_call.
Quiet(s) == [s EXCEPT !.events = <<>>, !.scans = <<>>]

\* A call that panics never returns: nothing is called afterwards.
Running == result # "panic"

\* The public call name(arg) ends with r = <<engine, result>>.
Called(name, arg, r) ==
  /\ chain' = Quiet(r[1])
  /\ result' = r[2]
  /\ last_call' = <<name, arg, r[1].events, r[1].scans>>

\* append_block(b) has ended with r.
Appended(b, r) ==
  /\ Called("append_block", b, r)
  /\ all_ok' = (all_ok /\ r[2] = "Ok")
  /\ accepted' = IF r[2] = "Ok" THEN accepted \cup {b} ELSE accepted

\* append_block(b) under the iteration order ord.
DoAppend(b, ord) ==
  /\ Appended(b, append_block(chain, b, ord))
  /\ UNCHANGED <<blocks, cref>>

\* rewind(t).
DoRewind(t) ==
  /\ Called("rewind", t, rewind(chain, t))
  /\ rewound' = TRUE
  /\ UNCHANGED <<blocks, all_ok, accepted, cref>>

AppendBlock ==
  /\ Running
  /\ \E b \in TreeBlocks \cup {NOPARENT}, ord \in Orders : DoAppend(b, ord)
  /\ UNCHANGED <<rewound, script>>

Rewind ==
  /\ Running
  /\ \E t \in {GENESIS} \cup TreeBlocks : DoRewind(t)
  /\ UNCHANGED script

Next == AppendBlock \/ Rewind

Spec == Init /\ [][Next]_vars

SpecAny == InitAny /\ [][Next]_vars

\* Runs that only append, over the trees of NumForkBlocks blocks.
InitAppend == (\E p \in Trees(NumForkBlocks) : Start(p, 0)) /\ script = NoScript

SpecAppend == InitAppend /\ [][AppendBlock]_vars

\* ----------------------------------------------- the window of heights
\* The block submitted against the window.
PROBE == WindowChain + 1

\* A chain 1, 2, ... of WindowChain blocks on genesis, and the block PROBE
\* with any parent (or none) and any height.
WindowBlocks(parent, height) ==
  [b \in 0..PROBE |->
     IF b = GENESIS THEN [parent_hash |-> NONE, height |-> 0]
     ELSE IF b = PROBE THEN [parent_hash |-> parent, height |-> height]
     ELSE [parent_hash |-> b - 1, height |-> b]]

InitWindow ==
  /\ \E parent \in {NONE} \cup (0..WindowChain),
        height \in 0..(WindowChain + MAX_HEIGHT + 1) :
       blocks = WindowBlocks(parent, height)
  /\ chain = Fresh
  /\ result = "new"
  /\ last_call = <<"new", NONE, <<>>, <<>>>>
  /\ all_ok = TRUE
  /\ accepted = {}
  /\ rewound = FALSE
  /\ script = NoScript
  /\ cref = ChainRef_new

\* The next block of the chain is appended.
WindowExtend ==
  /\ Running
  /\ \E b \in 1..WindowChain, ord \in Orders :
       /\ b \notin Known(chain)
       /\ \A c \in 1..(b - 1) : c \in Known(chain)
       /\ DoAppend(b, ord)
  /\ UNCHANGED <<rewound, script>>

\* The block PROBE is submitted.
WindowProbe ==
  /\ Running
  /\ \E ord \in Orders : DoAppend(PROBE, ord)
  /\ UNCHANGED <<rewound, script>>

NextWindow == WindowExtend \/ WindowProbe

SpecWindow == InitWindow /\ [][NextWindow]_vars

\* ------------------------------------------- detached sub-trees only
\* Blocks whose roots have a parent that is never submitted: every tree of
\* NumDetachedBlocks blocks in which the parent 0 stands for the hash UNSEEN.
UNSEEN == MaxHash + 1

DetachedBlocks(p) ==
  [b \in 0..NumDetachedBlocks |->
     IF b = GENESIS THEN [parent_hash |-> NONE, height |-> 0]
     ELSE [parent_hash |-> IF p[b] = 0 THEN UNSEEN ELSE p[b],
           height |-> TreeHeight(p, 0, b) + 1]]

InitDetached ==
  /\ \E p \in Trees(NumDetachedBlocks) : blocks = DetachedBlocks(p)
  /\ chain = Fresh
  /\ result = "new"
  /\ last_call = <<"new", NONE, <<>>, <<>>>>
  /\ all_ok = TRUE
  /\ accepted = {}
  /\ rewound = FALSE
  /\ script = NoScript
  /\ cref = ChainRef_new

DetachedAppend ==
  /\ Running
  /\ \E b \in 1..NumDetachedBlocks, ord \in Orders : DoAppend(b, ord)
  /\ UNCHANGED <<rewound, script>>

SpecDetached == InitDetached /\ [][DetachedAppend]_vars

\* ------------------------------------- promotion of disconnected sub-trees
\* Trees with the chain 1 <- 2 <- 3 on genesis, the block 4 on block 1 and
\* every further block on block 4 or on a block after it.
PromoteTrees ==
  { [b \in 1..NumPromoteBlocks |->
       IF b <= 3 THEN b - 1 ELSE IF b = 4 THEN 1 ELSE q[b]] :
    q \in { f \in [5..NumPromoteBlocks -> 4..(NumPromoteBlocks - 1)] :
              \A b \in 5..NumPromoteBlocks : f[b] < b } }

PromoteBlocks(p) ==
  [b \in 0..NumPromoteBlocks |->
     IF b = GENESIS THEN [parent_hash |-> NONE, height |-> 0]
     ELSE [parent_hash |-> p[b], height |-> TreeHeight(p, 0, b)]]

InitPromote ==
  /\ \E p \in PromoteTrees : blocks = PromoteBlocks(p)
  /\ chain = Fresh
  /\ result = "new"
  /\ last_call = <<"new", NONE, <<>>, <<>>>>
  /\ all_ok = TRUE
  /\ accepted = {}
  /\ rewound = FALSE
  /\ script = NoScript
  /\ cref = ChainRef_new

PromoteAppend ==
  /\ Running
  /\ \E b \in 1..NumPromoteBlocks, ord \in Orders : DoAppend(b, ord)
  /\ UNCHANGED <<rewound, script>>

SpecPromote == InitPromote /\ [][PromoteAppend]_vars

\* ------------------------------------------- the orphan pool at capacity
\* The blocks 1..CapacityChain are a chain on genesis.  The fillers are
\* MAX_ORPHANS blocks that never connect to genesis: every first one has the
\* parent MISSING, which is never submitted, and every second one is the
\* child of the filler before it.  The probes are further blocks, one for
\* each kind of parent.
Fillers == (CapacityChain + 1)..(CapacityChain + MAX_ORPHANS)
FirstFiller == CapacityChain + 1
MISSING == CapacityChain + MAX_ORPHANS + 1

\* <<parent hash, height>> of the probes: parent never submitted; child of
\* genesis; child of the first chain block; child of the last chain block;
\* child of a filler that has a child; child of a filler that has none;
\* child of the first chain block with a height that is not its height + 1.
ProbeValues ==
  << <<MISSING, 2>>, <<GENESIS, 1>>, <<1, 2>>, <<CapacityChain, CapacityChain + 1>>,
     <<FirstFiller, 3>>, <<FirstFiller + 1, 4>>, <<1, 5>> >>

Probes == (MISSING + 1)..(MISSING + Len(ProbeValues))

CapacityBlocks ==
  [b \in (0..(MISSING - 1)) \cup Probes |->
     IF b = GENESIS THEN [parent_hash |-> NONE, height |-> 0]
     ELSE IF b \in Probes
     THEN [parent_hash |-> ProbeValues[b - MISSING][1],
           height |-> ProbeValues[b - MISSING][2]]
     ELSE IF b <= CapacityChain THEN [parent_hash |-> b - 1, height |-> b]
     ELSE IF (b - CapacityChain) % 2 = 1 THEN [parent_hash |-> MISSING, height |-> 2]
     ELSE [parent_hash |-> b - 1, height |-> 3]]

\* Iteration orders over the hashes of these runs.
MaxCapacityHash == MISSING + Len(ProbeValues)
CapacityOrders ==
  { [i \in 1..MaxCapacityHash |-> i],
    [i \in 1..MaxCapacityHash |-> MaxCapacityHash + 1 - i] }

InitCapacity ==
  /\ blocks = CapacityBlocks
  /\ chain = Fresh
  /\ result = "new"
  /\ last_call = <<"new", NONE, <<>>, <<>>>>
  /\ all_ok = TRUE
  /\ accepted = {}
  /\ rewound = FALSE
  /\ script = NoScript
  /\ cref = ChainRef_new

\* The blocks of I that may be submitted: the lowest one that is not known.
NextOf(s, I) == { b \in I : b \notin Known(s) /\ \A c \in I : c < b => c \in Known(s) }

\* The blocks submitted by the runs that fill the pool: the next block of
\* the chain, the next filler and, once the pool is one block short of its
\* capacity, any probe.
Submitted(s) ==
  NextOf(s, 1..CapacityChain) \cup NextOf(s, Fillers)
    \cup (IF Cardinality(s.orphan_pool) >= MAX_ORPHANS - 1 THEN Probes ELSE {})

CapacityAppend ==
  /\ Running
  /\ \E b \in Submitted(chain), ord \in CapacityOrders : DoAppend(b, ord)
  /\ UNCHANGED <<rewound, script>>

\* rewind to a block of the chain below the tip.
CapacityRewind ==
  /\ Running
  /\ \E t \in 1..CapacityChain :
       /\ DbGet(chain, t)
       /\ t # chain.canonical_tip
       /\ DoRewind(t)
  /\ UNCHANGED script

NextCapacity == CapacityAppend \/ CapacityRewind

SpecCapacity == InitCapacity /\ [][NextCapacity]_vars

\* ------------------------------------------------ blocks of any height
\* The block values of a tree whose blocks claim the heights hs.
BlockValuesAt(p, hs) ==
  [b \in {GENESIS} \cup (DOMAIN p) \cup {NOPARENT} |->
     IF b = GENESIS THEN [parent_hash |-> NONE, height |-> 0]
     ELSE IF b = NOPARENT THEN [parent_hash |-> NONE, height |-> 1]
     ELSE [parent_hash |-> p[b], height |-> hs[b]]]

InitHeights ==
  /\ \E p \in Trees(NumHeightBlocks),
        hs \in [1..NumHeightBlocks -> 1..MaxClaimedHeight] :
       blocks = BlockValuesAt(p, hs)
  /\ chain = Fresh
  /\ result = "new"
  /\ last_call = <<"new", NONE, <<>>, <<>>>>
  /\ all_ok = TRUE
  /\ accepted = {}
  /\ rewound = FALSE
  /\ script = NoScript
  /\ cref = ChainRef_new

SpecHeights == InitHeights /\ [][Next]_vars

\* ---------------------------------------- append(seq); rewind(b); append(seq')
\* The blocks from the child of genesis down to b, in order.
RECURSIVE PathTo(_, _)
PathTo(p, b) == IF b = GENESIS THEN <<>> ELSE Append(PathTo(p, p[b]), b)

InitRoundTrip ==
  \E p \in Trees(NumBlocks), top \in Blocks :
    /\ Start(p, 0)
    /\ script = [pc |-> "append", seq |-> PathTo(p, top), i |-> 0,
                 tip |-> NONE, height |-> 0]

\* append(seq): the chain seq is appended from genesis, block by block.
RtAppend ==
  /\ Running
  /\ script.pc = "append"
  /\ script.i < Len(script.seq)
  /\ \E ord \in Orders : DoAppend(script.seq[script.i + 1], ord)
  /\ script' = [script EXCEPT !.i = @ + 1]
  /\ UNCHANGED rewound

\* rewind(b) for a block b of seq; the tip and height that append(seq)
\* alone gave are kept.
RtRewind ==
  /\ Running
  /\ script.pc = "append"
  /\ script.i = Len(script.seq)
  /\ \E k \in 1..Len(script.seq) :
       /\ DoRewind(script.seq[k])
       /\ script' = [script EXCEPT !.pc = "resubmit", !.i = k,
                                   !.tip = chain.canonical_tip,
                                   !.height = chain.height]

\* append(seq'): the part of seq above b is submitted again, in order.
RtResubmit ==
  /\ Running
  /\ script.pc = "resubmit"
  /\ script.i < Len(script.seq)
  /\ \E ord \in Orders : DoAppend(script.seq[script.i + 1], ord)
  /\ script' = [script EXCEPT !.i = @ + 1]
  /\ UNCHANGED rewound

NextRoundTrip == RtAppend \/ RtRewind \/ RtResubmit

SpecRoundTrip == InitRoundTrip /\ [][NextRoundTrip]_vars

\* --------------------------------------------- runs through ChainRef
\* Writers call append_block and rewind under chain.write(); each reader
\* runs ChainRef::query, whose three critical sections (the cache lookup,
\* the engine's query under chain.read(), the publication in the cache) are
\* one step each.
InitCache == (\E p \in Trees(NumCacheBlocks) : Start(p, 0)) /\ script = NoScript

\* chain.write().append_block(b).
CacheAppend ==
  /\ Running
  /\ \E b \in TreeBlocks, ord \in Orders :
       /\ Appended(b, append_block(chain, b, ord))
       /\ cref' = [cref EXCEPT !.persisted = @ \cup chain'.db]
  /\ UNCHANGED <<blocks, rewound, script>>

\* chain.write().rewind(t).
CacheRewind ==
  /\ Running
  /\ \E t \in TreeBlocks :
       /\ DbGet(chain, t)
       /\ t # chain.canonical_tip
       /\ Called("rewind", t, rewind(chain, t))
       /\ rewound' = TRUE
       /\ cref' = [cref EXCEPT !.persisted = @ \cup chain'.db]
  /\ UNCHANGED <<blocks, all_ok, accepted, script>>

\* ChainRef::query(h), first section: the lookup in the cache.  A hit
\* returns the cached block.
QueryCacheOf(h) ==
  /\ Running
  /\ \E r \in Readers :
       LET g == LruGet(cref.block_cache, h) IN
       /\ cref.readers[r].pc = "idle"
       /\ cref' = IF g.value # NONE
                  THEN [cref EXCEPT !.block_cache = g.cache,
                                    !.last = <<h, g.value>>,
                                    !.served = @ \cup {h}]
                  ELSE [cref EXCEPT !.readers[r] =
                          [pc |-> "engine", hash |-> h, found |-> NONE]]
  /\ UNCHANGED <<blocks, chain, result, last_call, all_ok, accepted, rewound, script>>

QueryCache == \E h \in 1..NumCacheBlocks : QueryCacheOf(h)

\* Second section: chain.read().query(h).  None is returned to the caller.
QueryEngine ==
  /\ Running
  /\ \E r \in Readers :
       LET h == cref.readers[r].hash
           v == Chain_query(chain, h)
       IN
       /\ cref.readers[r].pc = "engine"
       /\ cref' = IF v = NONE
                  THEN [cref EXCEPT !.readers[r] = Idle, !.last = <<h, NONE>>]
                  ELSE [cref EXCEPT
                          !.readers[r] = [pc |-> "publish", hash |-> h, found |-> v],
                          !.returned = @ \cup {<<h, v>>}]
  /\ UNCHANGED <<blocks, chain, result, last_call, all_ok, accepted, rewound, script>>

\* Third section: cache the result unless the cache holds the hash by now,
\* and return it.
QueryPublish ==
  /\ Running
  /\ \E r \in Readers :
       LET h == cref.readers[r].hash
           v == cref.readers[r].found
           g == LruGet(cref.block_cache, h)
       IN
       /\ cref.readers[r].pc = "publish"
       /\ cref' = [cref EXCEPT
                     !.block_cache = IF g.value = NONE THEN LruPut(@, h, v) ELSE g.cache,
                     !.readers[r] = Idle,
                     !.last = <<h, v>>,
                     !.served = @ \cup {h}]
  /\ UNCHANGED <<blocks, chain, result, last_call, all_ok, accepted, rewound, script>>

NextCache == CacheAppend \/ CacheRewind \/ QueryCache \/ QueryEngine \/ QueryPublish

SpecCache == InitCache /\ [][NextCache]_vars

\* The readers keep calling ChainRef::query for every hash, and a reader
\* that waits for the lock of the engine or of the cache gets it.
FairCache ==
  /\ \A h \in 1..NumCacheBlocks : SF_vars(QueryCacheOf(h))
  /\ WF_vars(QueryEngine)
  /\ WF_vars(QueryPublish)

\* The same runs over the chain 1 <- 2 <- ... of NumCacheBlocks blocks.
InitCacheChain ==
  Start([b \in 1..NumCacheBlocks |-> b - 1], 0) /\ script = NoScript

SpecCacheFair == InitCacheChain /\ [][NextCache]_vars /\ FairCache

\* ------------------------------------------- ChainRef::query, lock by lock
\* ChainRef::query with every acquisition and release of a lock as a step
\* of its own, beside a writer that calls chain.write().append_block(b).
\* The history of the results is not recorded in these runs.
InitLocks ==
  Start([b \in 1..NumLockBlocks |-> b - 1], 0) /\ script = NoScript

Pc(r) == cref.readers[r].pc

LockFrame == UNCHANGED <<blocks, chain, result, last_call, all_ok, accepted, rewound, script>>

\* let mut cache = self.block_cache.lock(), the first time.
QLock(r) ==
  /\ Pc(r) = "idle"
  /\ cref.mutex = 0
  /\ \E h \in 1..NumLockBlocks :
       cref' = [cref EXCEPT !.mutex = r,
                            !.readers[r] = [pc |-> "cache", hash |-> h, found |-> NONE]]
  /\ LockFrame

\* A lookup that keeps the Mutex of the cache on a miss.
QLookupKeepsLock(r) ==
  /\ Pc(r) = "cache"
  /\ LET g == LruGet(cref.block_cache, cref.readers[r].hash) IN
     cref' = IF g.value # NONE
             THEN [cref EXCEPT !.block_cache = g.cache, !.mutex = 0,
                               !.readers[r] = Idle]
             ELSE [cref EXCEPT !.readers[r].pc = "read_wait"]
  /\ LockFrame

\* cache.get(hash) and the end of the block: the guard of the cache is
\* dropped; a hit is returned.
QLookup(r) ==
  /\ Pc(r) = "cache"
  /\ LET g == LruGet(cref.block_cache, cref.readers[r].hash) IN
     cref' = IF g.value # NONE
             THEN [cref EXCEPT !.block_cache = g.cache, !.mutex = 0,
                               !.readers[r] = Idle]
             ELSE [cref EXCEPT !.mutex = 0, !.readers[r].pc = "read_wait"]
  /\ LockFrame

\* let chain = self.chain.read(): granted while no writer holds the lock.
QRead(r) ==
  /\ Pc(r) = "read_wait"
  /\ ~cref.wlock
  /\ cref' = [cref EXCEPT !.rlocks = @ \cup {r}, !.readers[r].pc = "reading"]
  /\ LockFrame

\* chain.query(hash) and the end of the block: the read guard is dropped;
\* None is returned.
QEngine(r) ==
  /\ Pc(r) = "reading"
  /\ LET v == Chain_query(chain, cref.readers[r].hash) IN
     cref' = IF v = NONE
             THEN [cref EXCEPT !.rlocks = @ \ {r}, !.readers[r] = Idle]
             ELSE [cref EXCEPT !.rlocks = @ \ {r},
                               !.readers[r].pc = "cache_wait",
                               !.readers[r].found = v]
  /\ LockFrame

\* let mut cache = self.block_cache.lock(), the second time.
QLockAgain(r) ==
  /\ Pc(r) = "cache_wait"
  /\ cref.mutex = 0
  /\ cref' = [cref EXCEPT !.mutex = r, !.readers[r].pc = "publish"]
  /\ LockFrame

\* cache.put unless the cache holds the hash by now; the guard is dropped
\* and the block returned.
QPut(r) ==
  /\ Pc(r) = "publish"
  /\ LET h == cref.readers[r].hash
         g == LruGet(cref.block_cache, h)
     IN cref' = [cref EXCEPT
                   !.block_cache = IF g.value = NONE
                                   THEN LruPut(@, h, cref.readers[r].found)
                                   ELSE g.cache,
                   !.mutex = 0,
                   !.readers[r] = Idle]
  /\ LockFrame

\* chain.write(): granted while nobody holds the lock.
WLock ==
  /\ Running
  /\ ~cref.wlock /\ cref.rlocks = {}
  /\ cref' = [cref EXCEPT !.wlock = TRUE]
  /\ LockFrame

\* append_block(b) under the write guard, which is dropped when it returns.
WAppend ==
  /\ cref.wlock
  /\ \E b \in 1..NumLockBlocks, ord \in Orders :
       /\ Appended(b, append_block(chain, b, ord))
       /\ cref' = [cref EXCEPT !.wlock = FALSE]
  /\ UNCHANGED <<blocks, rewound, script>>

QueryLock == \E r \in Readers : QLock(r)
QueryLookup == \E r \in Readers : QLookup(r)
QueryRead == \E r \in Readers : QRead(r)
QueryRun == \E r \in Readers : QEngine(r)
QueryLockAgain == \E r \in Readers : QLockAgain(r)
QueryPut == \E r \in Readers : QPut(r)

NextLocks ==
  \/ QueryLock \/ QueryLookup \/ QueryRead \/ QueryRun
  \/ QueryLockAgain \/ QueryPut \/ WLock \/ WAppend

\* What WAppend does to the locks: the write guard is dropped.  A step of
\* the runs changes wlock from TRUE to FALSE exactly when it is a WAppend
\* step, and WAppend can be taken exactly when wlock is TRUE.
WRelease == cref.wlock /\ cref' = [cref EXCEPT !.wlock = FALSE]

\* A thread that runs goes on, a writer gives the lock back, and a thread
\* that waits for a lock that is free again and again gets it.
FairLocks ==
  /\ \A r \in Readers :
       /\ WF_vars(QLookup(r) \/ QEngine(r) \/ QPut(r))
       /\ SF_vars(QRead(r) \/ QLockAgain(r))
  /\ WF_cref(WRelease)

SpecLocks == InitLocks /\ [][NextLocks]_vars /\ FairLocks

\* ============================================================ claims
\* The chain of parent hashes of b, followed through known blocks, reaches
\* genesis.
RECURSIVE ReachesGenesis(_, _)
ReachesGenesis(s, b) ==
  IF b = GENESIS THEN TRUE
  ELSE IF b \notin Known(s) THEN FALSE
  ELSE ReachesGenesis(s, ParentHash(b))

\* The non-genesis blocks on the parent path from b to genesis.
RECURSIVE PathFrom(_)
PathFrom(b) == IF b = GENESIS \/ b = NONE THEN {} ELSE {b} \cup PathFrom(ParentHash(b))

IsAppend == last_call[1] = "append_block"
IsRewind == last_call[1] = "rewind"

\* The run that submits the blocks 1, 2, ... in this order (every parent
\* before its children) to a fresh engine.
RECURSIVE RunInOrder(_, _)
RunInOrder(s, b) ==
  IF b \notin TreeBlocks THEN s
  ELSE RunInOrder(append_block(s, b, Ascending)[1], b + 1)

\* C1: order-independence.  Once every block of the tree has been submitted
\* once to a fresh engine, in any order, every call has returned Ok and the
\* canonical tip and height are those of the run that submits the same
\* blocks in the order 1, 2, ...
OrderIndependence ==
  /\ (~rewound /\ IsAppend /\ last_call[2] \in TreeBlocks)
       => result \in {"Ok", "AlreadyInChain"}
  /\ (~rewound /\ all_ok /\ accepted = TreeBlocks)
       => /\ chain.height = RunInOrder(Fresh, 1).height
          /\ chain.canonical_tip = RunInOrder(Fresh, 1).canonical_tip

\* C2: deepest-wins.  Without external rewind, after a call has returned, no
\* known block connected to genesis is higher than the canonical chain.
DeepestWins ==
  (~rewound /\ Running)
    => \A b \in Known(chain) : ReachesGenesis(chain, b) => chain.height >= Height(b)

\* C3: strict switching.  Without external rewind an append_block call never
\* lowers the canonical height and changes the canonical tip only when it
\* strictly raises the canonical height.
StrictSwitching ==
  [][ ~rewound'
        => /\ chain'.height >= chain.height
           /\ (chain'.canonical_tip # chain.canonical_tip
                 => chain'.height > chain.height) ]_vars

\* C3 witness: the accepted block extends a competing valid branch, which
\* now is as high as the canonical chain, and the canonical tip is another
\* block.
StrictSwitchingWitness ==
  /\ ~rewound /\ IsAppend /\ result = "Ok"
  /\ last_call[2] \in chain.valid_tips
  /\ ParentHash(last_call[2]) \in chain.orphan_pool
  /\ Height(last_call[2]) = chain.height
  /\ chain.canonical_tip # last_call[2]

\* C4: rewind round-trip.  At the end of append(seq); rewind(b); append(seq')
\* the canonical tip and height are those that append(seq) alone gave.
RewindRoundTrip ==
  (script.pc = "resubmit" /\ script.i = Len(script.seq))
    => /\ Running
       /\ chain.canonical_tip = script.tip
       /\ chain.height = script.height

ChainErrs == {"AlreadyInChain", "NoParentHash", "BadHeight", "TooManyOrphans", "NoSuchBlock"}

HeightAgreement ==
  Running => /\ chain.height = Height(chain.canonical_tip)
             /\ chain.height = chain.db_height

\* C7: the persisted chain is contiguous down to genesis: every block on the
\* parent path from canonical_tip, genesis included, is returned by query.
PersistedChainContiguous ==
  Running => \A b \in PathFrom(chain.canonical_tip) \cup {GENESIS} :
               Chain_query(chain, b) = b

\* C8: store / orphan-pool partition.  No hash is both persisted and
\* orphaned, the persisted blocks are exactly those on the parent path from
\* canonical_tip, and every other accepted block is in the orphan pool.
StoreOrphanPartition ==
  Running => /\ chain.db \cap chain.orphan_pool = {}
             /\ chain.db = PathFrom(chain.canonical_tip)
             /\ accepted \ chain.db = chain.orphan_pool

\* C8 witness: after a rewind and further appends the engine holds a
\* canonical chain of two blocks or more beside two orphans or more.
StoreOrphanPartitionWitness ==
  /\ Running /\ rewound /\ IsAppend /\ result = "Ok"
  /\ Cardinality(chain.db) >= 2
  /\ Cardinality(chain.orphan_pool) >= 2

\* C9: no panic from append_block.  On a fresh engine (no external rewind) no
\* append_block call fails an assertion, an unwrap or reaches unreachable!().
NoPanicFromAppend == ~rewound => result # "panic"

\* C9 witness: an append_block call has switched the canonical chain (the
\* former tip is an orphan now), which evaluates the assertions of
\* attempt_switch and write_block.
NoPanicFromAppendWitness ==
  /\ ~rewound /\ IsAppend /\ result = "Ok"
  /\ chain.canonical_tip = last_call[2]
  /\ \E o \in chain.orphan_pool :
       /\ Height(o) = chain.height - 1
       /\ chain.validations_mapping[o] = ValidChainTip

\* C10: effect of rewind on the persisted chain.  After rewind(t) returns Ok
\* for a block t below the tip: height() = t.height, canonical_tip() = t,
\* query returns None for the blocks that were canonical above t and still
\* returns t and the canonical blocks below it, and the blocks that were
\* canonical above t are in the orphan pool.
RewindEffect ==
  [][ (last_call'[1] = "rewind" /\ result' = "Ok"
         /\ last_call'[2] # chain.canonical_tip)
        => LET t == last_call'[2]
               canonical == PathFrom(chain.canonical_tip)
               above == { b \in canonical : Height(b) > Height(t) }
           IN /\ chain'.height = Height(t)
              /\ chain'.canonical_tip = t
              /\ \A b \in above : Chain_query(chain', b) = NONE
                                  /\ b \in chain'.orphan_pool
              /\ \A b \in canonical \ above : Chain_query(chain', b) = b ]_vars

\* C10 witness: rewind has returned Ok and moved two blocks or more out of
\* the store.
RewindEffectWitness ==
  /\ IsRewind /\ result = "Ok"
  /\ chain.canonical_tip = last_call[2]
  /\ Cardinality({ b \in chain.orphan_pool :
                     chain.validations_mapping[b] = BelongsToValidChain }) >= 1
  /\ chain.db # {}

\* ------------------------------------------------- orphan indexes
Status(s, o) == s.validations_mapping[o]

\* The orphans whose parent is o.
Children(s, o) == { c \in s.orphan_pool : ParentHash(c) = o }

\* The entry of o in the bucket of its own height.
HasEntry(s, o) ==
  /\ Height(o) \in DOMAIN s.heights_mapping
  /\ o \in DOMAIN s.heights_mapping[Height(o)]

InverseEntry(s, o) == s.heights_mapping[Height(o)][o]

\* C11: effect of rewind on the orphan indexes.  After rewind(t) returns Ok
\* the former canonical tip is a ValidChainTip and is in valid_tips, every
\* other demoted block BelongsToValidChain, the demoted blocks carry the
\* inverse heights 0, 1, 2, ... counted from the former tip, the status of
\* every orphan that existed before is unchanged and valid_tips is the old
\* valid_tips plus the former tip.
RewindIndexes ==
  [][ (last_call'[1] = "rewind" /\ result' = "Ok")
        => LET t == last_call'[2]
               old == chain.canonical_tip
               demoted == PathFrom(old) \ PathFrom(t)
           IN /\ old \in demoted
              /\ Status(chain', old) = ValidChainTip
              /\ old \in chain'.valid_tips
              /\ \A b \in demoted \ {old} : Status(chain', b) = BelongsToValidChain
              /\ \A b \in demoted :
                   /\ HasEntry(chain', b)
                   /\ InverseEntry(chain', b) = Height(old) - Height(b)
              /\ \A o \in chain.orphan_pool : Status(chain', o) = Status(chain, o)
              /\ chain'.valid_tips = chain.valid_tips \cup {old} ]_vars

\* C11 witness: rewind has returned Ok over three blocks or more while a
\* disconnected orphan was in the pool.
RewindIndexesWitness ==
  /\ IsRewind /\ result = "Ok"
  /\ \E o \in chain.orphan_pool :
       /\ Status(chain, o) = BelongsToValidChain
       /\ HasEntry(chain, o) /\ InverseEntry(chain, o) = 1
  /\ \E o \in chain.orphan_pool : Status(chain, o) = DisconnectedTip

\* C12: valid_tips is exactly the set of ValidChainTip hashes.  After every
\* call that returns, every hash in valid_tips is an orphan recorded as
\* ValidChainTip and every hash recorded as ValidChainTip is in valid_tips.
ValidTipsExact ==
  Running
    => /\ chain.valid_tips \subseteq chain.orphan_pool
       /\ chain.valid_tips =
            { h \in DOMAIN chain.validations_mapping :
                chain.validations_mapping[h] = ValidChainTip }

\* The root of the orphan sub-tree of o: the last orphan on the walk along
\* parent hashes through the orphan pool.
RECURSIVE OrphanRoot(_, _)
OrphanRoot(s, o) ==
  IF ParentHash(o) \in s.orphan_pool THEN OrphanRoot(s, ParentHash(o)) ELSE o

ValidStatuses == {ValidChainTip, BelongsToValidChain}
DisconnectedStatuses == {DisconnectedTip, BelongsToDisconnected}

\* C13: orphan colour matches topology.  After every call that returns, an
\* orphan is ValidChainTip or BelongsToValidChain exactly when the parent of
\* the root of its sub-tree is in the store, DisconnectedTip or
\* BelongsToDisconnected exactly when that parent is not in the store, and
\* every key of disconnected_heads_mapping is an orphan of unknown parent.
ColourMatchesTopology ==
  Running
    => /\ \A o \in chain.orphan_pool :
            /\ DbGet(chain, ParentHash(OrphanRoot(chain, o)))
                 <=> Status(chain, o) \in ValidStatuses
            /\ ~DbGet(chain, ParentHash(OrphanRoot(chain, o)))
                 <=> Status(chain, o) \in DisconnectedStatuses
       /\ \A k \in DOMAIN chain.disconnected_heads_mapping :
            /\ k \in chain.orphan_pool
            /\ ParentHash(k) \notin Known(chain)

TipStatuses == {DisconnectedTip, ValidChainTip}

\* C14: tip statuses mark exactly the leaves.  After every call that returns,
\* an orphan is DisconnectedTip or ValidChainTip exactly when no orphan has
\* it as parent, and BelongsToDisconnected or BelongsToValidChain exactly
\* when some orphan is its child.
TipsAreLeaves ==
  Running
    => \A o \in chain.orphan_pool :
         /\ Status(chain, o) \in TipStatuses <=> Children(chain, o) = {}
         /\ Status(chain, o) \in {BelongsToDisconnected, BelongsToValidChain}
              <=> Children(chain, o) # {}

MaxOf(S) == CHOOSE x \in S : \A y \in S : y <= x

\* C15: max_orphan_height is exact.  After every call that returns,
\* max_orphan_height is None exactly when the orphan pool is empty and
\* otherwise is the greatest height of a block in the orphan pool.
MaxOrphanHeightExact ==
  Running
    => /\ chain.max_orphan_height = NONE <=> chain.orphan_pool = {}
       /\ chain.orphan_pool # {}
            => chain.max_orphan_height =
                 MaxOf({ Height(o) : o \in chain.orphan_pool })

\* C16: the disconnected maps are mutual inverses.  After every call that
\* returns, t is in disconnected_heads_mapping[k] exactly when
\* disconnected_tips_mapping[t] = k, the tip sets of distinct heads are
\* disjoint, and disconnected_heads_mapping and disconnected_heads_heights
\* have the same keys.
DisconnectedMapsInverse ==
  Running
    => LET heads == chain.disconnected_heads_mapping
           tips == chain.disconnected_tips_mapping
       IN /\ \A k \in DOMAIN heads : \A t \in heads[k] :
               t \in DOMAIN tips /\ tips[t] = k
          /\ \A t \in DOMAIN tips :
               tips[t] \in DOMAIN heads /\ t \in heads[tips[t]]
          /\ \A k1, k2 \in DOMAIN heads :
               k1 # k2 => heads[k1] \cap heads[k2] = {}
          /\ DOMAIN heads = DOMAIN chain.disconnected_heads_heights

\* C16 witness: a block has been accepted as a second tip of a disconnected
\* head whose first tip has a child.
DisconnectedMapsInverseWitness ==
  /\ IsAppend /\ result = "Ok"
  /\ \E k \in DOMAIN chain.disconnected_heads_mapping :
       /\ last_call[2] \in chain.disconnected_heads_mapping[k]
       /\ Cardinality(chain.disconnected_heads_mapping[k]) >= 2
       /\ k \notin chain.disconnected_heads_mapping[k]

\* C17: orphan index completeness.  After every call that returns, every
\* block in the orphan pool has an entry in the heights_mapping bucket of
\* its own height and in no other bucket, and a validations_mapping entry;
\* heights_mapping holds no hash that is not in the orphan pool.
OrphanIndexComplete ==
  Running
    => /\ \A o \in chain.orphan_pool :
            /\ HasEntry(chain, o)
            /\ \A h \in DOMAIN chain.heights_mapping :
                 o \in DOMAIN chain.heights_mapping[h] => h = Height(o)
            /\ o \in DOMAIN chain.validations_mapping
       /\ \A h \in DOMAIN chain.heights_mapping :
            DOMAIN chain.heights_mapping[h] \subseteq chain.orphan_pool

\* C17 witness: a call has returned Ok with two orphans in one bucket and
\* with a bucket whose orphans have all been written to the chain.
OrphanIndexCompleteWitness ==
  /\ result = "Ok"
  /\ \E h \in DOMAIN chain.heights_mapping :
       Cardinality(DOMAIN chain.heights_mapping[h]) >= 2
  /\ \E h \in DOMAIN chain.heights_mapping :
       DOMAIN chain.heights_mapping[h] = {}

\* The number of blocks from o down to its deepest descendant in the pool.
RECURSIVE InverseOf(_, _)
InverseOf(s, o) ==
  IF Children(s, o) = {} THEN 0
  ELSE 1 + MaxOf({ InverseOf(s, c) : c \in Children(s, o) })

\* C18: inverse heights are exact.  After every call that returns, the
\* inverse height stored for an orphan is the number of blocks from it to
\* its deepest descendant in the orphan pool, 0 exactly for the orphans
\* without a child in the pool.
InverseHeightsExact ==
  Running
    => \A o \in chain.orphan_pool :
         /\ HasEntry(chain, o)
         /\ InverseEntry(chain, o) = InverseOf(chain, o)

\* The height of b is inside the acceptance window of s.
InWindow(s, b) ==
  /\ Height(b) <= s.height + MAX_HEIGHT
  /\ Height(b) >= MinHeight(s)

\* C19: duplicate rejection.  append_block of a block whose height is inside
\* the window and whose hash is in the store or in the orphan pool returns
\* Err(AlreadyInChain); no known block is accepted again.
DuplicateRejected ==
  [][ last_call'[1] = "append_block"
        => /\ (last_call'[2] \in Known(chain) /\ InWindow(chain, last_call'[2]))
                => result' = "AlreadyInChain"
           /\ result' = "Ok" => last_call'[2] \notin Known(chain) ]_vars

\* C19 witness: a block that rewind moved from the store to the orphan pool
\* has been submitted again and rejected, while other blocks are persisted.
DuplicateRejectedWitness ==
  /\ IsAppend /\ result = "AlreadyInChain"
  /\ rewound
  /\ last_call[2] \in chain.orphan_pool
  /\ Status(chain, last_call[2]) = BelongsToValidChain
  /\ chain.db # {}

\* C20: the window of heights.  With canonical height H, append_block
\* returns Err(BadHeight) for every block whose height is above H + 10 or
\* below max(1, H - 10), whatever its parent and whether or not its hash is
\* known; a block whose height is inside the window is rejected with
\* BadHeight only by the check of its height against the height of its
\* known parent.
HeightWindow ==
  [][ last_call'[1] = "append_block"
        => LET b == last_call'[2]
               H == chain.height
               low == IF H - 10 > 1 THEN H - 10 ELSE 1
           IN /\ (Height(b) > H + 10 \/ Height(b) < low)
                   => result' = "BadHeight"
              /\ (Height(b) <= H + 10 /\ Height(b) >= low /\ result' = "BadHeight")
                   => /\ b \notin Known(chain)
                      /\ \/ ParentHash(b) = chain.canonical_tip
                         \/ ParentHash(b) \in Known(chain)
                      /\ Height(b) # Height(ParentHash(b)) + 1 ]_vars

\* C20 witness: an orphan that was accepted while its height was inside the
\* window has been submitted again with the canonical height more than 10
\* above it, and rejected with BadHeight.
HeightWindowWitness ==
  /\ IsAppend /\ result = "BadHeight"
  /\ last_call[2] \in chain.orphan_pool
  /\ Height(last_call[2]) >= 1
  /\ Height(last_call[2]) < chain.height - 10

\* C21: the check of the parent's height.  append_block of a new block whose
\* parent is known at submission time (the canonical tip, another persisted
\* block or an orphan of any status), with the orphan pool below its
\* capacity, returns Err(BadHeight) whenever the height of the block differs
\* from the height of its parent plus one.
ParentHeightChecked ==
  [][ last_call'[1] = "append_block"
        => LET b == last_call'[2] IN
           ( /\ b \notin Known(chain)
             /\ ParentHash(b) # NONE
             /\ ParentHash(b) \in Known(chain) \cup {chain.canonical_tip}
             /\ Cardinality(chain.orphan_pool) < MAX_ORPHANS
             /\ Height(b) # Height(ParentHash(b)) + 1 )
             => result' = "BadHeight" ]_vars

\* C22: the orphan pool at capacity.  With MAX_ORPHANS blocks (or more) in
\* the orphan pool, append_block of an unknown block whose height is inside
\* the window and whose parent is not the canonical tip returns
\* Err(TooManyOrphans), and append_block of an unknown block whose parent is
\* the canonical tip and whose height is H + 1 returns Ok and persists the
\* block.
CapacityError ==
  [][ (last_call'[1] = "append_block"
         /\ Cardinality(chain.orphan_pool) >= MAX_ORPHANS
         /\ last_call'[2] \notin Known(chain))
        => LET b == last_call'[2] IN
           /\ (InWindow(chain, b) /\ ParentHash(b) # NONE
                 /\ ParentHash(b) # chain.canonical_tip)
                => result' = "TooManyOrphans"
           /\ (ParentHash(b) = chain.canonical_tip /\ Height(b) = chain.height + 1)
                => /\ result' = "Ok"
                   /\ Chain_query(chain', b) = b ]_vars

\* C22 witness: with a pool of MAX_ORPHANS blocks and a canonical chain of
\* two blocks or more, a child of a persisted block below the tip has been
\* rejected with TooManyOrphans.
CapacityErrorWitness ==
  /\ IsAppend /\ result = "TooManyOrphans"
  /\ Cardinality(chain.orphan_pool) = MAX_ORPHANS
  /\ DbGet(chain, ParentHash(last_call[2]))
  /\ Height(last_call[2]) = Height(ParentHash(last_call[2])) + 1
  /\ Cardinality(chain.db) >= 2

\* C23: the bound of the orphan pool.  After every append_block and rewind
\* call that returns, the orphan pool holds MAX_ORPHANS blocks at most.
OrphanPoolBounded ==
  Running => Cardinality(chain.orphan_pool) <= MAX_ORPHANS

\* C24: the engine's query returns canonical blocks only.  After every call
\* that returns, query(hash) of a known block other than genesis returns the
\* block exactly when the block is on the parent path from canonical_tip,
\* and returns None for every hash in the orphan pool.
QueryCanonicalOnly ==
  Running
    => /\ \A b \in (Known(chain) \cup accepted) \ {GENESIS} :
            /\ Chain_query(chain, b) \in {b, NONE}
            /\ Chain_query(chain, b) = b <=> b \in PathFrom(chain.canonical_tip)
       /\ \A o \in chain.orphan_pool : Chain_query(chain, o) = NONE

\* C24 witness: after a rewind and a later append_block that returned Ok, two
\* blocks or more are canonical and two blocks that were canonical before
\* are in the orphan pool.
QueryCanonicalOnlyWitness ==
  /\ Running /\ rewound /\ IsAppend /\ result = "Ok"
  /\ Cardinality(chain.db) >= 2
  /\ Cardinality(chain.orphan_pool) >= 2
  /\ \E o \in chain.orphan_pool : Status(chain, o) = BelongsToValidChain

\* C25: the tip pointer is persisted.  After every append_block or rewind
\* call that returns Ok, the store's TIP_KEY entry holds the hash of
\* canonical_tip, and an engine constructed by Chain::new over the same store
\* has the canonical_tip() and the height() of the running engine.
TipPointerPersisted ==
  (Running /\ result = "Ok")
    => /\ chain.db_tip = chain.canonical_tip
       /\ ~Chain_new(chain).panic
       /\ Chain_new(chain).canonical_tip = chain.canonical_tip
       /\ Chain_new(chain).height = chain.height

\* C26: soundness of the cache.  Under every interleaving of the sections of
\* ChainRef::query with append_block and rewind calls, a block returned by
\* ChainRef::query(h) has the hash h, has been returned by the engine's
\* query(h) at that moment or before, and has been persisted on the
\* canonical chain at some moment; the same holds of every cache entry.
CacheSound ==
  /\ (cref.last # <<>> /\ cref.last[2] # NONE)
       => /\ cref.last[2] = cref.last[1]
          /\ cref.last \in cref.returned
          /\ cref.last[2] \in cref.persisted
  /\ \A i \in 1..Len(cref.block_cache) :
       /\ cref.block_cache[i][2] = cref.block_cache[i][1]
       /\ cref.block_cache[i] \in cref.returned
       /\ cref.block_cache[i][2] \in cref.persisted

\* C26 witness: the last block that ChainRef::query returned is one that a
\* writer has moved to the orphan pool since, while another reader that
\* found a block in the engine has not published it yet and that block has
\* left the store as well.
CacheSoundWitness ==
  /\ cref.last # <<>> /\ cref.last[2] # NONE
  /\ cref.last[1] \in chain.orphan_pool
  /\ \E r \in Readers :
       /\ cref.readers[r].pc = "publish"
       /\ cref.readers[r].hash # cref.last[1]
       /\ ~DbGet(chain, cref.readers[r].hash)

\* ChainRef::query has returned h and h is not in the store.
Stale(h) == h \in cref.served /\ ~DbGet(chain, h)

\* C27: eventual consistency of the cache.  If a block h that ChainRef::query
\* has returned is removed from the canonical chain and stays out of it,
\* then among the later ChainRef::query(h) calls there is one that returns
\* None (as long as no call of the engine panics).
CacheEventuallyConsistent ==
  \A h \in 1..NumCacheBlocks :
    [](Stale(h) => <>(~Running \/ ~Stale(h) \/ cref.last = <<h, NONE>>))

\* o is in the orphan sub-tree of k: the walk from o along parent hashes
\* through the orphan pool meets k.
RECURSIVE InSubTree(_, _, _)
InSubTree(s, o, k) ==
  \/ o = k
  \/ /\ o # NONE /\ o \in s.orphan_pool
     /\ ParentHash(o) \in s.orphan_pool
     /\ InSubTree(s, ParentHash(o), k)

SubTree(s, k) == { o \in s.orphan_pool : InSubTree(s, o, k) }

\* The block is valid on submission: its parent is persisted below the tip
\* or is an orphan of a valid chain.
ValidOnSubmission(s, b) ==
  \/ DbGet(s, ParentHash(b)) /\ ParentHash(b) # s.canonical_tip
  \/ ParentHash(b) \in s.orphan_pool /\ Status(s, ParentHash(b)) \in ValidStatuses

\* The disconnected heads whose parent is b.
HeadsOn(s, b) == { k \in DOMAIN s.disconnected_heads_heights : ParentHash(k) = b }

\* No block of the set has an entry in the three disconnected maps.
Unmapped(s, S) ==
  /\ S \cap DOMAIN s.disconnected_heads_mapping = {}
  /\ S \cap DOMAIN s.disconnected_heads_heights = {}
  /\ S \cap DOMAIN s.disconnected_tips_mapping = {}
  /\ \A k \in DOMAIN s.disconnected_heads_mapping :
       S \cap s.disconnected_heads_mapping[k] = {}

\* C28: promotion of a disconnected sub-tree and switch in one call.  When
\* append_block accepts a valid block b while disconnected heads have the
\* parent hash(b), then for a head of greatest max tip height among them:
\* the blocks of its sub-tree that are orphans when the call returns are
\* ValidChainTip and in valid_tips when they have no child in the pool and
\* BelongsToValidChain otherwise, no block of the sub-tree has an entry in
\* the three disconnected maps, and if the height of the max tip exceeds H
\* the canonical tip is that max tip.
PromotionAndSwitch ==
  [][ (last_call'[1] = "append_block" /\ result' = "Ok"
         /\ ValidOnSubmission(chain, last_call'[2])
         /\ HeadsOn(chain, last_call'[2]) # {})
        => LET b == last_call'[2]
               heads == HeadsOn(chain, b)
               top == MaxOf({ chain.disconnected_heads_heights[k][1] : k \in heads })
           IN \E k \in heads :
                LET sub == SubTree(chain, k)
                    max_tip == chain.disconnected_heads_heights[k][2]
                IN /\ chain.disconnected_heads_heights[k][1] = top
                   /\ top = MaxOf({ Height(o) : o \in sub })
                   /\ max_tip \in sub /\ Height(max_tip) = top
                   /\ \A o \in sub \cap chain'.orphan_pool :
                        IF Children(chain', o) = {}
                        THEN Status(chain', o) = ValidChainTip
                             /\ o \in chain'.valid_tips
                        ELSE Status(chain', o) = BelongsToValidChain
                   /\ Unmapped(chain', sub)
                   /\ top > chain.height => chain'.canonical_tip = max_tip ]_vars

\* C28 witness: the accepted block has become an interior block of a valid
\* chain below the canonical height; two disconnected heads, submitted
\* before it, have it as parent, and one of them is a valid chain tip now.
PromotionAndSwitchWitness ==
  /\ IsAppend /\ result = "Ok"
  /\ last_call[2] \in chain.orphan_pool
  /\ Status(chain, last_call[2]) = BelongsToValidChain
  /\ Cardinality(Children(chain, last_call[2])) >= 2
  /\ \E c \in Children(chain, last_call[2]) :
       Status(chain, c) = ValidChainTip /\ c \in chain.valid_tips


\* The block's parent is unknown or lies in a disconnected sub-tree.
DisconnectedOnSubmission(s, b) ==
  \/ /\ ParentHash(b) \notin Known(s)
     /\ ParentHash(b) # GENESIS
     /\ ParentHash(b) # s.canonical_tip
  \/ /\ ParentHash(b) \in s.orphan_pool
     /\ Status(s, ParentHash(b)) \in {DisconnectedTip, BelongsToDisconnected}

\* The head of the sub-tree of orphans that holds o.
RECURSIVE RootOf(_, _)
RootOf(s, o) ==
  IF ParentHash(o) \in s.orphan_pool THEN RootOf(s, ParentHash(o)) ELSE o

\* C29: fusion of disconnected sub-trees.  When append_block accepts a block
\* b whose parent is unknown or lies in a disconnected sub-tree while
\* disconnected heads have the parent hash(b), then when the call returns
\* none of those heads is a key of disconnected_heads_mapping or of
\* disconnected_heads_heights, each of their tips is in the tip set of the
\* head of b's sub-tree and maps to that head in disconnected_tips_mapping,
\* the recorded max tip of that head is the tallest tip of the fused tree,
\* and b is BelongsToDisconnected and in no tip set.
FusionOfSubTrees ==
  [][ (last_call'[1] = "append_block" /\ result' = "Ok"
         /\ DisconnectedOnSubmission(chain, last_call'[2])
         /\ HeadsOn(chain, last_call'[2]) # {})
        => LET b == last_call'[2]
               heads == HeadsOn(chain, b)
               root == RootOf(chain', b)
           IN /\ \A k \in heads :
                   /\ k \notin DOMAIN chain'.disconnected_heads_mapping
                   /\ k \notin DOMAIN chain'.disconnected_heads_heights
              /\ root \in DOMAIN chain'.disconnected_heads_mapping
              /\ root \in DOMAIN chain'.disconnected_heads_heights
              /\ \A k \in heads : \A t \in chain.disconnected_heads_mapping[k] :
                   /\ t \in chain'.disconnected_heads_mapping[root]
                   /\ t \in DOMAIN chain'.disconnected_tips_mapping
                   /\ chain'.disconnected_tips_mapping[t] = root
              /\ LET max_tip == chain'.disconnected_heads_heights[root][2]
                     top == chain'.disconnected_heads_heights[root][1]
                 IN /\ max_tip \in chain'.disconnected_heads_mapping[root]
                    /\ top = Height(max_tip)
                    /\ top = MaxOf({ Height(o) : o \in SubTree(chain', root) })
              /\ Status(chain', b) = BelongsToDisconnected
              /\ \A k \in DOMAIN chain'.disconnected_heads_mapping :
                   b \notin chain'.disconnected_heads_mapping[k] ]_vars


\* C29 witness: the accepted block was attached below an orphan of a
\* disconnected sub-tree and two heads submitted before it were fused on
\* it; the head of the fused tree holds their tips.
FusionOfSubTreesWitness ==
  /\ IsAppend /\ result = "Ok"
  /\ last_call[2] \in chain.orphan_pool
  /\ ParentHash(last_call[2]) \in chain.orphan_pool
  /\ Status(chain, last_call[2]) = BelongsToDisconnected
  /\ Cardinality(Children(chain, last_call[2])) >= 2
  /\ RootOf(chain, last_call[2]) \in DOMAIN chain.disconnected_heads_mapping
  /\ Cardinality(chain.disconnected_heads_mapping[RootOf(chain, last_call[2])]) >= 2


\* C30: drain completeness.  After every append_block call that returns Ok
\* (no rewind, blocks with height = parent height + 1), no block of the
\* orphan pool has the canonical tip as parent.
DrainComplete ==
  (IsAppend /\ result = "Ok" /\ ~rewound)
    => \A o \in chain.orphan_pool : ParentHash(o) # chain.canonical_tip


\* C30 witness: the accepted block is a child of genesis written as the new
\* tip, two orphans that followed it were absorbed in the same call (the tip
\* is its grandchild) and an orphan that is a sibling of the absorbed child
\* stays in the pool.
DrainCompleteWitness ==
  /\ IsAppend /\ result = "Ok" /\ ~rewound
  /\ DbGet(chain, last_call[2])
  /\ ParentHash(last_call[2]) = GENESIS
  /\ ParentHash(chain.canonical_tip) # NONE
  /\ ParentHash(ParentHash(chain.canonical_tip)) = last_call[2]
  /\ Children(chain, last_call[2]) # {}


\* The orphans of the pool that descend from b, b being in the pool or not.
DescendantsOf(s, b) == UNION { SubTree(s, c) : c \in Children(s, b) }

\* C31: fork choice in the drain.  When append_block writes a block b on the
\* canonical tip and the drain meets a written block with two or more
\* orphans on it, the orphan it persists has the greatest recorded inverse
\* height among them, each orphan not chosen ends the call in the pool with
\* a valid-chain status, and the canonical chain ends at a deepest block
\* among b and the orphans that descend from b.
DrainForkChoice ==
  [][ (last_call'[1] = "append_block" /\ result' = "Ok"
         /\ ParentHash(last_call'[2]) = chain.canonical_tip)
        => LET b == last_call'[2]
               written == chain'.db \ chain.db
           IN /\ \A x \in written :
                   LET kids == Children(chain, x) IN
                   Cardinality(kids) >= 2 =>
                     \E c \in kids \cap written :
                       /\ \A o \in kids : InverseEntry(chain, o) <= InverseEntry(chain, c)
                       /\ \A o \in kids \ {c} :
                            /\ o \in chain'.orphan_pool
                            /\ Status(chain', o) \in ValidStatuses
              /\ Height(chain'.canonical_tip)
                   = MaxOf({Height(b)} \cup { Height(o) : o \in DescendantsOf(chain, b) })
    ]_vars


\* C31 witness: a child of genesis was written on the tip and the drain
\* went on over two more blocks, while an orphan on the written block was
\* not chosen and stays in the pool with a valid-chain status.
DrainForkChoiceWitness ==
  /\ IsAppend /\ result = "Ok" /\ ~rewound
  /\ DbGet(chain, last_call[2])
  /\ ParentHash(last_call[2]) = GENESIS
  /\ Height(chain.canonical_tip) >= Height(last_call[2]) + 2
  /\ \E o \in Children(chain, last_call[2]) : Status(chain, o) \in ValidStatuses


\* C32: insertion below a disconnected parent.  When append_block accepts a
\* block b whose parent p is an orphan and no disconnected head has the
\* parent hash(b): if p is DisconnectedTip, p becomes BelongsToDisconnected,
\* b is DisconnectedTip with inverse height 0, b replaces p in the tip set
\* of p's head and in disconnected_tips_mapping, and the recorded max tip of
\* the head becomes b if b is taller; if p is BelongsToDisconnected, p keeps
\* its status and b is one more DisconnectedTip of the head found by walking
\* p's parents; the canonical tip and height do not change.
InsertBelowDisconnected ==
  [][ (last_call'[1] = "append_block" /\ result' = "Ok"
         /\ ParentHash(last_call'[2]) \in chain.orphan_pool
         /\ Status(chain, ParentHash(last_call'[2]))
              \in {DisconnectedTip, BelongsToDisconnected}
         /\ HeadsOn(chain, last_call'[2]) = {})
        => LET b == last_call'[2]
               p == ParentHash(b)
           IN /\ chain'.canonical_tip = chain.canonical_tip
              /\ chain'.height = chain.height
              /\ b \in chain'.orphan_pool
              /\ Status(chain', b) = DisconnectedTip
              /\ InverseEntry(chain', b) = 0
              /\ IF Status(chain, p) = DisconnectedTip
                 THEN LET head == chain.disconnected_tips_mapping[p] IN
                      /\ Status(chain', p) = BelongsToDisconnected
                      /\ chain'.disconnected_heads_mapping[head]
                           = (chain.disconnected_heads_mapping[head] \ {p}) \cup {b}
                      /\ p \notin DOMAIN chain'.disconnected_tips_mapping
                      /\ b \in DOMAIN chain'.disconnected_tips_mapping
                      /\ chain'.disconnected_tips_mapping[b] = head
                      /\ chain'.disconnected_heads_heights[head]
                           = IF Height(b) > chain.disconnected_heads_heights[head][1]
                             THEN <<Height(b), b>>
                             ELSE chain.disconnected_heads_heights[head]
                 ELSE LET head == RootOf(chain, p) IN
                      /\ Status(chain', p) = BelongsToDisconnected
                      /\ head \in DOMAIN chain'.disconnected_heads_mapping
                      /\ chain'.disconnected_heads_mapping[head]
                           = chain.disconnected_heads_mapping[head] \cup {b}
                      /\ b \in DOMAIN chain'.disconnected_tips_mapping
                      /\ chain'.disconnected_tips_mapping[b] = head
    ]_vars


\* C32 witness: the accepted block is a DisconnectedTip below an interior
\* block of a disconnected sub-tree that already had a child, so the head
\* of the sub-tree has two tips.
InsertBelowDisconnectedWitness ==
  /\ IsAppend /\ result = "Ok"
  /\ last_call[2] \in chain.orphan_pool
  /\ Status(chain, last_call[2]) = DisconnectedTip
  /\ ParentHash(last_call[2]) \in chain.orphan_pool
  /\ Status(chain, ParentHash(last_call[2])) = BelongsToDisconnected
  /\ Cardinality(Children(chain, ParentHash(last_call[2]))) >= 2
  /\ last_call[2] \in DOMAIN chain.disconnected_tips_mapping
  /\ Cardinality(chain.disconnected_heads_mapping[
                   chain.disconnected_tips_mapping[last_call[2]]]) >= 2


ForkOffGenesis ==
  [][ (last_call'[1] = "append_block" /\ result' = "Ok"
         /\ ParentHash(last_call'[2]) = GENESIS
         /\ Height(last_call'[2]) = 1
         /\ chain.canonical_tip # GENESIS /\ chain.height >= 1)
        => LET b == last_call'[2]
           IN /\ b \in chain'.orphan_pool
              /\ Status(chain', b) = ValidChainTip
              /\ b \in chain'.valid_tips
              /\ Unmapped(chain', {b})
    ]_vars


\* C35: parent-height consistency of everything the engine holds.  In every
\* reachable state, every known block whose parent is also known (in the
\* store or in the orphan pool) has height = parent height + 1.
ParentHeightConsistent ==
  \A b \in Known(chain) :
    ParentHash(b) \in Known(chain) => Height(b) = Height(ParentHash(b)) + 1


\* The events of the last public call, the blocks its callback calls were
\* made for, in order, and the positions of an event.
Events == last_call[3]
Hooked(ev) == SelectSeq(ev, LAMBDA e : e[1] = "after_write")
Drained(ev) == \E i \in 1..Len(ev) : ev[i][1] = "process_orphans"

\* The callback is called once for each block that the call persisted.
HookedOncePerWrite(before, after, ev) ==
  LET hk == Hooked(ev) IN
  /\ { hk[i][2] : i \in 1..Len(hk) } = after.db \ before.db
  /\ \A i, j \in 1..Len(hk) : hk[i] = hk[j] => i = j

\* C36: order of the after-write hook in a direct extension.  When
\* append_block persists a block b on the canonical tip, the callback for b
\* is called after the drain started by b has run (it is the last event of
\* the call), and in every call the callback is called once for each block
\* the call persists.
HookAfterDrain ==
  [][ /\ (last_call'[1] = "append_block" /\ result' = "Ok"
            /\ Drained(last_call'[3]))
          => last_call'[3][Len(last_call'[3])] = <<"after_write", last_call'[2]>>
      /\ result' # "panic" => HookedOncePerWrite(chain, chain', last_call'[3])
    ]_vars

\* C36 as amended: the callback for b is called at the end of
\* write_block(b), before the drain started by b runs: the first event of
\* the call is the callback for b, the second the call of process_orphans
\* at the height above b, and the callbacks of the call follow the order of
\* the canonical chain; in every call the callback is called once for each
\* block the call persists.
HookBeforeDrain ==
  [][ /\ (last_call'[1] = "append_block" /\ result' = "Ok"
            /\ Drained(last_call'[3]))
          => LET ev == last_call'[3]
                 hk == Hooked(ev)
             IN /\ ev[1] = <<"after_write", last_call'[2]>>
                /\ ev[2] = <<"process_orphans", Height(last_call'[2]) + 1>>
                /\ \A i \in 3..Len(ev) : ev[i][1] = "after_write"
                /\ \A i \in 2..Len(hk) : ParentHash(hk[i][2]) = hk[i - 1][2]
                /\ chain'.canonical_tip = hk[Len(hk)][2]
      /\ result' # "panic" => HookedOncePerWrite(chain, chain', last_call'[3])
    ]_vars

\* C36 witness: a block was written on the tip and the drain wrote two
\* orphans after it; the callback was called for the three blocks.
HookBeforeDrainWitness ==
  /\ IsAppend /\ result = "Ok"
  /\ Len(Events) = 4
  /\ Events[1] = <<"after_write", last_call[2]>>
  /\ Events[2][1] = "process_orphans"
  /\ Events[3][1] = "after_write" /\ Events[4][1] = "after_write"
  /\ chain.canonical_tip = Events[4][2]


\* A reader that waits for the RwLock of the chain, or holds it, does not
\* hold the Mutex of the cache; the locks are held by the threads that are
\* at the steps that hold them.
LockInv ==
  /\ \A r \in Readers :
       /\ Pc(r) \in {"read_wait", "reading"} => cref.mutex # r
       /\ (r \in cref.rlocks) <=> (Pc(r) = "reading")
       /\ (cref.mutex = r) <=> (Pc(r) \in {"cache", "publish"})
  /\ cref.wlock => cref.rlocks = {}

\* Some thread can take a step.
CanStep ==
  \/ cref.wlock
  \/ cref.rlocks = {}
  \/ \E r \in Readers : Pc(r) \in {"cache", "reading", "publish"}

\* C37: lock discipline of the read path.  No thread holds the Mutex of the
\* cache while it acquires or holds the read lock of the engine; readers
\* and a writer never reach a state in which no thread can step; and every
\* ChainRef::query call that has started returns.
LockDiscipline ==
  /\ [](LockInv /\ CanStep)
  /\ \A r \in Readers : (Pc(r) # "idle") ~> (Pc(r) = "idle")

\* C37 witness: a writer holds the write lock while one reader waits for
\* the read lock and the other holds the Mutex of the cache.
LockDisciplineWitness ==
  /\ cref.wlock
  /\ \E r \in Readers : Pc(r) = "read_wait"
  /\ \E r \in Readers : cref.mutex = r
  /\ \E h \in 1..NumLockBlocks : DbGet(chain, h)


\* The iterations of the loops of process_orphans in the last public call:
\* <<"start", start_height, max_orphan_height>> where a drain starts, then
\* <<"scan", h, done>> for each iteration.
Scans == last_call[4]

\* The drain that the i-th entry of sc belongs to.
DrainOf(sc, i) == CHOOSE k \in 1..i : sc[k][1] = "start" /\ \A m \in (k + 1)..i : sc[m][1] = "scan"

\* C38: termination of the drain.  process_orphans returns in every
\* reachable state; the scanned height rises by one from an iteration to
\* the next except for at most one iteration that is repeated, the one in
\* which done is first set; and no iteration scans a height above the value
\* max_orphan_height had when the drain started.
DrainTerminates ==
  /\ Scans # <<>> => Scans[1][1] = "start"
  /\ \A i \in 1..Len(Scans) :
       Scans[i][1] = "scan" =>
         LET st == Scans[DrainOf(Scans, i)] IN
         /\ st[3] # NONE /\ Scans[i][2] <= st[3]
         /\ IF Scans[i - 1][1] = "start"
            THEN Scans[i][2] = st[2] /\ ~Scans[i][3]
            ELSE \/ Scans[i][2] = Scans[i - 1][2] + 1 /\ (Scans[i - 1][3] => Scans[i][3])
                 \/ /\ Scans[i][2] = Scans[i - 1][2]
                    /\ ~Scans[i - 1][3] /\ Scans[i][3]
  /\ \A i, j \in 2..Len(Scans) :
       /\ i < j /\ DrainOf(Scans, i) = DrainOf(Scans, j)
       /\ Scans[i][1] = "scan" /\ Scans[i - 1][1] = "scan" /\ Scans[i][2] = Scans[i - 1][2]
       /\ Scans[j - 1][1] = "scan"
       => Scans[j][2] # Scans[j - 1][2]

\* C38 witness: a drain wrote a block, went on to the next height and
\* repeated the iteration in which done was set.
DrainTerminatesWitness ==
  \E i \in 3..Len(Scans) :
    /\ Scans[i][1] = "scan" /\ Scans[i - 1][1] = "scan" /\ Scans[i - 2][1] = "scan"
    /\ Scans[i][2] = Scans[i - 1][2]
    /\ Scans[i - 1][2] = Scans[i - 2][2] + 1


\* The chain switches of the last public call: <<horizon, canonical tip>>
\* at the call of rewind in attempt_switch.
Switches ==
  LET sw == SelectSeq(Events, LAMBDA e : e[1] = "switch")
  IN { <<sw[i][2], sw[i][3]>> : i \in 1..Len(sw) }

\* C39: the switch horizon is strictly below the tip.  Whenever
\* attempt_switch performs a chain switch, the horizon it passes to rewind
\* is a block below the canonical tip, never the canonical tip itself.
SwitchHorizonBelowTip ==
  \A sw \in Switches : sw[1] # sw[2] /\ Height(sw[1]) < Height(sw[2])


\* C40: rewind to the current tip is a no-op.  rewind(h) with h the hash of
\* the canonical tip, a block other than genesis, returns Ok and leaves the
\* store, the canonical tip, the height and the orphan pool unchanged.
RewindToTipNoOp ==
  [][ (/\ last_call'[1] = "rewind"
       /\ last_call'[2] = chain.canonical_tip
       /\ chain.canonical_tip # GENESIS)
      => /\ result' = "Ok"
         /\ chain'.db = chain.db
         /\ chain'.canonical_tip = chain.canonical_tip
         /\ chain'.height = chain.height
         /\ chain'.orphan_pool = chain.orphan_pool
    ]_vars

====
